---------------------------- MODULE Spec2Model ----------------------------
(***************************************************************************)
(* Model of the cost / waste / optimization core of the DevOps SDK         *)
(* (cost.go, waste.go, optimizer.go).                                      *)
(*                                                                         *)
(* Numbers.  The Go code computes in float64.  A finite float64 is carried *)
(* here as an exact rational <<n, d>> (d > 0, lowest terms), so rounding   *)
(* error and overflow of finite values are not modelled.  Where the code   *)
(* tests for NaN and infinities (calculateMonthlyCost) a float64 is the    *)
(* record [k, v] with k one of "fin", "nan", "pinf", "ninf".               *)
(* Byte quantities (memory, storage) are carried in units of 1Mi           *)
(* (2^20 bytes), so 1Gi is 1024 units; CPU quantities are millicores.      *)
(* A quantity string such as "600m" or "4Gi" is the record                 *)
(* [n |-> 600, suffix |-> "m"]; formatting rounds, parsing scales.         *)
(***************************************************************************)
EXTENDS Integers, Sequences, FiniteSets, TLC

VARIABLES
    pricing,       \* CostAnalyzer.pricing
    estimate,      \* the UnitCostEstimate last passed through calculateMonthlyCost
    thresholds,    \* WasteAnalyzer.thresholds
    detection,     \* the result of the last analyzeUnitWaste call
    safetyConfig,  \* OptimizationEngine.safetyConfig
    config         \* the result of the last optimizer call

vars == <<pricing, estimate, thresholds, detection, safetyConfig, config>>

-----------------------------------------------------------------------------
(* float64 arithmetic on finite values: exact rationals                    *)

Abs(x) == IF x < 0 THEN -x ELSE x

RECURSIVE GCD(_, _)
GCD(a, b) == IF b = 0 THEN a ELSE GCD(b, a % b)

Rat(n, d) ==
    LET s == IF d < 0 THEN -1 ELSE 1
        g == GCD(Abs(n), Abs(d))
    IN  <<(s * n) \div g, (s * d) \div g>>

I2F(i) == <<i, 1>>

\* products and sums cancel common factors first, so that intermediate
\* values stay small
FMul(a, b) ==
    LET g1 == GCD(Abs(a[1]), b[2])
        g2 == GCD(Abs(b[1]), a[2])
    IN  Rat((a[1] \div g1) * (b[1] \div g2), (a[2] \div g2) * (b[2] \div g1))
FAdd(a, b) ==
    LET g == GCD(a[2], b[2])
    IN  Rat(a[1] * (b[2] \div g) + b[1] * (a[2] \div g), (a[2] \div g) * b[2])
FNeg(a)    == <<-a[1], a[2]>>
FSub(a, b) == FAdd(a, FNeg(b))
FInv(a)    == IF a[1] < 0 THEN <<-a[2], -a[1]>> ELSE <<a[2], a[1]>>
FDiv(a, b) == FMul(a, FInv(b))
FLt(a, b)  == FSub(a, b)[1] < 0
FLe(a, b)  == FSub(a, b)[1] <= 0
FMin(a, b) == IF FLt(b, a) THEN b ELSE a
FMax(a, b) == IF FLt(a, b) THEN b ELSE a

Zero == I2F(0)
One  == I2F(1)

\* fmt.Sprintf("%.0f", x): round to the nearest integer, ties to even
RoundHalfEven(x) ==
    LET a == Abs(x[1])
        q == a \div x[2]
        r == a % x[2]
        m == IF 2 * r < x[2] THEN q
             ELSE IF 2 * r > x[2] THEN q + 1
             ELSE IF q % 2 = 0 THEN q ELSE q + 1
    IN  IF x[1] < 0 THEN -m ELSE m

\* int32(x), int(x): truncation toward zero
Trunc(x) ==
    LET q == Abs(x[1]) \div x[2]
    IN  IF x[1] < 0 THEN -q ELSE q

\* math.Ceil
Ceil(x) == IF x[1] % x[2] = 0 THEN x[1] \div x[2] ELSE (x[1] \div x[2]) + 1


-----------------------------------------------------------------------------
(* float64 values that may be NaN or infinite                              *)

Fin(r) == [k |-> "fin", v |-> r]
NaN    == [k |-> "nan", v |-> Zero]
PInf   == [k |-> "pinf", v |-> Zero]
NInf   == [k |-> "ninf", v |-> Zero]

XIsNaN(x) == x.k = "nan"
XIsInf(x) == x.k \in {"pinf", "ninf"}
\* x < 0 (false for NaN)
XLt0(x) == x.k = "ninf" \/ (x.k = "fin" /\ x.v[1] < 0)
XSign(x) == IF x.k = "pinf" THEN 1
            ELSE IF x.k = "ninf" THEN -1
            ELSE IF x.v[1] > 0 THEN 1 ELSE IF x.v[1] < 0 THEN -1 ELSE 0

XMul(x, y) ==
    IF XIsNaN(x) \/ XIsNaN(y) THEN NaN
    ELSE IF XIsInf(x) \/ XIsInf(y)
         THEN IF XSign(x) * XSign(y) = 0 THEN NaN
              ELSE IF XSign(x) * XSign(y) > 0 THEN PInf ELSE NInf
    ELSE Fin(FMul(x.v, y.v))

XAdd(x, y) ==
    IF XIsNaN(x) \/ XIsNaN(y) THEN NaN
    ELSE IF XIsInf(x) /\ XIsInf(y) THEN (IF x.k = y.k THEN x ELSE NaN)
    ELSE IF XIsInf(x) THEN x
    ELSE IF XIsInf(y) THEN y
    ELSE Fin(FAdd(x.v, y.v))

-----------------------------------------------------------------------------
(* cost.go: ResourceQuantity, PricingModel, calculateMonthlyCost           *)

\* a ResourceQuantity: milli (millicores) and bytes (in units of 1Mi)
Quantity(m, b) == [milli |-> m, bytes |-> b]
ZeroQuantity   == Quantity(0, 0)

MiPerGi == 1024

DefaultPricing ==
    [CPUHourly    |-> Fin(Rat(24, 1000)),
     MemoryHourly |-> Fin(Rat(6, 1000)),
     StorageGB    |-> Fin(Rat(10, 100))]

ZeroBreakdown == [CPUCost |-> Fin(Zero), MemoryCost |-> Fin(Zero), StorageCost |-> Fin(Zero)]

\* a UnitCostEstimate as analyzeDeployment and its siblings build it before
\* the cost is calculated
NewEstimate(cpu, mem, sto, replicas) ==
    [CPU |-> cpu, Memory |-> mem, Storage |-> sto, Replicas |-> replicas,
     MonthlyCost |-> Fin(Zero), Breakdown |-> ZeroBreakdown]

HoursPerMonth == 720

\* if math.IsNaN(c) || math.IsInf(c, 0) { c = 0 }
Collapse(c) == IF XIsNaN(c) \/ XIsInf(c) THEN Fin(Zero) ELSE c

\* ClampAmount without the test (mutation of ClampAmount)
ClampAmountOff(v) == v
\* if v < 0 { v = 0 } on an integer amount
ClampAmount(v) == IF v < 0 THEN 0 ELSE v

\* storage charged once, not per replica (mutation of StorageCost)
StorageCostUnreplicated(storageGB, pr, replicas) == XMul(Fin(storageGB), pr.StorageGB)
\* storageCost := storageGB * ca.pricing.StorageGB * replicas
StorageCost(storageGB, pr, replicas) ==
    XMul(XMul(Fin(storageGB), pr.StorageGB), Fin(I2F(replicas)))

\* calculateMonthlyCost: the estimate as the call leaves it (Replicas and
\* Breakdown are written through the pointer) and the value returned
calculateMonthlyCost(est, pr) ==
    LET est1 == [est EXCEPT !.Replicas = ClampAmount(est.Replicas)]
    IN  IF XLt0(pr.CPUHourly) \/ XLt0(pr.MemoryHourly) \/ XLt0(pr.StorageGB)
        THEN [estimate |-> est1, cost |-> Fin(Zero)]
        ELSE
          LET hours    == Fin(I2F(HoursPerMonth))
              replicas == Fin(I2F(est1.Replicas))
              cpuCores == Rat(ClampAmount(est1.CPU.milli), 1000)
              cpuCost  == Collapse(XMul(XMul(XMul(Fin(cpuCores), pr.CPUHourly), hours), replicas))
              memoryGB == Rat(ClampAmount(est1.Memory.bytes), MiPerGi)
              memoryCost == Collapse(XMul(XMul(XMul(Fin(memoryGB), pr.MemoryHourly), hours), replicas))
              storageGB == Rat(ClampAmount(est1.Storage.bytes), MiPerGi)
              storageCost == Collapse(StorageCost(storageGB, pr, est1.Replicas))
              totalCost == XAdd(XAdd(cpuCost, memoryCost), storageCost)
              est2 == [est1 EXCEPT !.Breakdown =
                          [CPUCost |-> cpuCost, MemoryCost |-> memoryCost,
                           StorageCost |-> storageCost]]
          IN  [estimate |-> est2,
               cost |-> IF XIsNaN(totalCost) \/ XIsInf(totalCost) \/ XLt0(totalCost)
                        THEN Fin(Zero) ELSE totalCost]


-----------------------------------------------------------------------------
(* The cost analyzer as a state machine: SetPricing and calculateMonthlyCost *)

MaxCores        == 3    \* CPU amounts up to this many cores
MaxMemGi        == 4    \* memory amounts up to this many Gi
MaxStorageGi    == 10   \* storage amounts up to this many Gi
MaxCostReplicas == 4    \* replica counts up to this

NilPricing == [nil |-> TRUE]
IsNilPricing(p) == "nil" \in DOMAIN p

\* one rate of the default model replaced by an unusual value
OddRates == {Fin(Zero), Fin(Rat(-1, 100)), Fin(Rat(1, 2)), NaN, PInf, NInf}
PricingModels ==
    {DefaultPricing, NilPricing}
    \cup {[DefaultPricing EXCEPT !.CPUHourly = r] : r \in OddRates}
    \cup {[DefaultPricing EXCEPT !.MemoryHourly = r] : r \in OddRates}
    \cup {[DefaultPricing EXCEPT !.StorageGB = r] : r \in OddRates}

CPUAmounts     == {-1000, 0, 500} \cup {1000 * c : c \in 1..MaxCores}
MemoryAmounts  == {-MiPerGi, 0, 512} \cup {MiPerGi * g : g \in 1..MaxMemGi}
StorageAmounts == {-MiPerGi, 0, MiPerGi * MaxStorageGi}
EstimateInputs ==
    {NewEstimate(Quantity(c, 0), Quantity(0, m), Quantity(0, st), r) :
        c \in CPUAmounts, m \in MemoryAmounts, st \in StorageAmounts,
        r \in -1..MaxCostReplicas}

NoEstimate == [called |-> FALSE]

\* SetPricing, before the estimate at hand is costed
SetPricing(p) ==
    /\ ~estimate.called
    /\ pricing' = p
    /\ UNCHANGED <<estimate, thresholds, detection, safetyConfig, config>>

\* estimate.MonthlyCost = ca.calculateMonthlyCost(estimate), as the tests and
\* analyzeDeployment / analyzeStatefulSet / analyzeDaemonSet call it
CalculateMonthlyCost ==
    LET pr == IF IsNilPricing(pricing) THEN DefaultPricing ELSE pricing
        r  == calculateMonthlyCost(estimate.in, pr)
    IN  /\ ~estimate.called
        /\ "in" \in DOMAIN estimate
        /\ pricing' = pr
        /\ estimate' = [called |-> TRUE, in |-> estimate.in, pricing |-> pr,
                        out |-> [r.estimate EXCEPT !.MonthlyCost = r.cost]]
        /\ UNCHANGED <<thresholds, detection, safetyConfig, config>>

-----------------------------------------------------------------------------
(* waste.go: WasteThresholds and the per-unit waste analysis               *)

DefaultWasteThresholds ==
    [CPUIdleThreshold             |-> I2F(5),
     CPUUnderutilizedThreshold    |-> I2F(30),
     MemoryIdleThreshold          |-> I2F(10),
     MemoryUnderutilizedThreshold |-> I2F(40),
     MinMonthlyCostForAnalysis    |-> I2F(1),
     WasteScoreHighThreshold      |-> I2F(80),
     WasteScoreMediumThreshold    |-> I2F(50)]

Hundred == I2F(100)

\* wastePercent of analyzeCPUWaste / analyzeMemoryWaste:
\* ((allocated - used) / allocated) * 100 when allocated > 0, else the zero value
WastePercentOf(allocated, used) ==
    IF FLt(Zero, allocated)
    THEN FMul(FDiv(FSub(allocated, used), allocated), Hundred)
    ELSE Zero

analyzeCPUWaste(est, usage) ==
    LET allocatedCores == Rat(est.CPU.milli, 1000)
        wastePercent   == WastePercentOf(allocatedCores, usage.CPUCoresUsed)
    IN  [UtilizationPercent |-> usage.CPUUtilizationPercent,
         WastePercent       |-> wastePercent,
         WastedCost         |-> FMul(est.Breakdown.CPUCost.v, FDiv(wastePercent, Hundred)),
         Recommended        |-> FMax(FMul(FMul(FDiv(usage.CPUPeakPercent, Hundred),
                                               allocatedCores), Rat(11, 10)),
                                     Rat(1, 10))]

analyzeMemoryWaste(est, usage) ==
    LET allocatedBytes == est.Memory.bytes
        wastePercent   == WastePercentOf(I2F(allocatedBytes), I2F(usage.MemoryBytesUsed))
    IN  [UtilizationPercent |-> usage.MemoryUtilizationPercent,
         WastePercent       |-> wastePercent,
         WastedCost         |-> FMul(est.Breakdown.MemoryCost.v, FDiv(wastePercent, Hundred)),
         Recommended        |-> FMax(FDiv(FMul(FMul(I2F(allocatedBytes),
                                                    FDiv(usage.MemoryPeakPercent, Hundred)),
                                               Rat(12, 10)), I2F(MiPerGi)),
                                     Rat(128, 1000))]

analyzeReplicaWaste(est, usage) ==
    LET configured     == est.Replicas
        average        == usage.AverageReplicas
        idle           == FMax(FSub(I2F(configured), average), Zero)
        costPerReplica == FDiv(est.MonthlyCost.v, I2F(configured))
        recommended    == Ceil(average) + 1
    IN  [ConfiguredReplicas |-> configured,
         AverageReplicas    |-> average,
         IdleReplicas       |-> idle,
         WastedCost         |-> FMul(idle, costPerReplica),
         Recommended        |-> IF recommended < 2 THEN 2 ELSE recommended]

\* the severity of an over-provisioning category
OverProvisionedSeverity(utilization, idleThreshold) ==
    IF FLt(utilization, idleThreshold) THEN "HIGH" ELSE "MEDIUM"

categorizeWaste(th, det, usage) ==
    (IF /\ FLt(usage.CPUUtilizationPercent, th.CPUIdleThreshold)
        /\ FLt(usage.MemoryUtilizationPercent, th.MemoryIdleThreshold)
     THEN <<[Type |-> "idle", Severity |-> "HIGH",
             Impact |-> FMul(det.EstimatedMonthlyCost, Rat(8, 10))]>>
     ELSE <<>>)
    \o
    (IF FLt(det.CPUWaste.UtilizationPercent, th.CPUUnderutilizedThreshold)
     THEN <<[Type |-> "cpu-over-provisioned",
             Severity |-> OverProvisionedSeverity(det.CPUWaste.UtilizationPercent,
                                                  th.CPUIdleThreshold),
             Impact |-> det.CPUWaste.WastedCost]>>
     ELSE <<>>)
    \o
    (IF FLt(det.MemoryWaste.UtilizationPercent, th.MemoryUnderutilizedThreshold)
     THEN <<[Type |-> "memory-over-provisioned",
             Severity |-> OverProvisionedSeverity(det.MemoryWaste.UtilizationPercent,
                                                  th.MemoryIdleThreshold),
             Impact |-> det.MemoryWaste.WastedCost]>>
     ELSE <<>>)
    \o
    (IF FLt(Rat(1, 2), det.ReplicaWaste.IdleReplicas)
     THEN <<[Type |-> "over-replicated", Severity |-> "MEDIUM",
             Impact |-> det.ReplicaWaste.WastedCost]>>
     ELSE <<>>)

determinePriority(savings) ==
    IF FLe(I2F(50), savings) THEN "HIGH"
    ELSE IF FLe(I2F(20), savings) THEN "MEDIUM"
    ELSE "LOW"

\* the memory recommendation marked as one to apply without approval
\* (mutation of MemoryResizeRecommendation)
MemoryResizeAutoApplied(det) ==
    [Type |-> "resize", Action |-> "Reduce memory allocation",
     Priority |-> determinePriority(det.MemoryWaste.WastedCost),
     PotentialSavings |-> FMul(det.MemoryWaste.WastedCost, Rat(8, 10)),
     Risk |-> "MEDIUM", AutoApplyable |-> TRUE]

\* the memory rightsizing recommendation
MemoryResizeRecommendation(det) ==
    [Type |-> "resize", Action |-> "Reduce memory allocation",
     Priority |-> determinePriority(det.MemoryWaste.WastedCost),
     PotentialSavings |-> FMul(det.MemoryWaste.WastedCost, Rat(8, 10)),
     Risk |-> "MEDIUM", AutoApplyable |-> FALSE]

generateWasteRecommendations(det, usage) ==
    (IF FLt(I2F(30), det.CPUWaste.WastePercent)
     THEN <<[Type |-> "resize", Action |-> "Reduce CPU allocation",
             Priority |-> determinePriority(det.CPUWaste.WastedCost),
             PotentialSavings |-> FMul(det.CPUWaste.WastedCost, Rat(8, 10)),
             Risk |-> "LOW", AutoApplyable |-> TRUE]>>
     ELSE <<>>)
    \o
    (IF FLt(I2F(30), det.MemoryWaste.WastePercent)
     THEN <<MemoryResizeRecommendation(det)>>
     ELSE <<>>)
    \o
    (IF FLt(Rat(1, 2), det.ReplicaWaste.IdleReplicas)
     THEN <<[Type |-> "scale-down", Action |-> "Reduce replica count",
             Priority |-> determinePriority(det.ReplicaWaste.WastedCost),
             PotentialSavings |-> FMul(det.ReplicaWaste.WastedCost, Rat(9, 10)),
             Risk |-> "HIGH", AutoApplyable |-> FALSE]>>
     ELSE <<>>)
    \o
    (IF /\ FLt(usage.CPUUtilizationPercent, I2F(1))
        /\ FLt(usage.MemoryUtilizationPercent, I2F(5))
        /\ FLt(usage.UptimePercent, I2F(50))
     THEN <<[Type |-> "terminate", Action |-> "Consider terminating",
             Priority |-> "HIGH",
             PotentialSavings |-> FMul(det.EstimatedMonthlyCost, Rat(95, 100)),
             Risk |-> "HIGH", AutoApplyable |-> FALSE]>>
     ELSE <<>>)


\* assessDataQuality: age of the window's end and span of the window, in hours
assessDataQuality(usage) ==
    IF usage.DataAgeHours < 24 /\ usage.DataSpanHours >= 7 * 24 THEN "EXCELLENT"
    ELSE IF usage.DataAgeHours < 3 * 24 /\ usage.DataSpanHours >= 3 * 24 THEN "GOOD"
    ELSE IF usage.DataAgeHours < 7 * 24 /\ usage.DataSpanHours >= 24 THEN "FAIR"
    ELSE "POOR"

ZeroResourceWaste ==
    [UtilizationPercent |-> Zero, WastePercent |-> Zero, WastedCost |-> Zero,
     Recommended |-> Zero]
ZeroReplicaWaste ==
    [ConfiguredReplicas |-> 0, AverageReplicas |-> Zero, IdleReplicas |-> Zero,
     WastedCost |-> Zero, Recommended |-> 0]

\* the WasteDetection literal both analyzeUnitWaste and analyzeWithoutUsageData
\* start from
NewDetection(est) ==
    [EstimatedMonthlyCost |-> est.MonthlyCost.v,
     ActualMonthlyCost    |-> est.MonthlyCost.v,
     WastedMonthlyCost    |-> Zero,
     WasteCategories      |-> <<>>,
     WasteScore           |-> Zero,
     WasteSeverity        |-> "",
     CPUWaste             |-> ZeroResourceWaste,
     MemoryWaste          |-> ZeroResourceWaste,
     ReplicaWaste         |-> ZeroReplicaWaste,
     Recommendations      |-> <<>>,
     PotentialSavings     |-> Zero,
     DataQuality          |-> "POOR"]

analyzeWithoutUsageData(est) ==
    LET d0       == NewDetection(est)
        cpuCores == Rat(est.CPU.milli, 1000)
        memoryGi == Rat(est.Memory.bytes, MiPerGi)
        cats ==
            (IF FLt(I2F(2), cpuCores)
             THEN <<[Type |-> "potentially-over-provisioned", Severity |-> "MEDIUM",
                     Impact |-> FMul(est.Breakdown.CPUCost.v, Rat(3, 10))]>>
             ELSE <<>>)
            \o
            (IF FLt(I2F(4), memoryGi)
             THEN <<[Type |-> "potentially-over-provisioned", Severity |-> "MEDIUM",
                     Impact |-> FMul(est.Breakdown.MemoryCost.v, Rat(3, 10))]>>
             ELSE <<>>)
    IN  [d0 EXCEPT !.WasteCategories = cats,
                   !.WasteScore = I2F(25),
                   !.WasteSeverity = "LOW"]

RECURSIVE SeverityMultiplier(_)
SeverityMultiplier(cats) ==
    IF cats = <<>> THEN One
    ELSE LET m == IF Head(cats).Severity = "HIGH" THEN Rat(15, 10)
                  ELSE IF Head(cats).Severity = "MEDIUM" THEN Rat(12, 10)
                  ELSE One
         IN  FMul(m, SeverityMultiplier(Tail(cats)))

QualityMultiplier(q) ==
    IF q = "GOOD" THEN Rat(9, 10)
    ELSE IF q = "FAIR" THEN Rat(7, 10)
    ELSE IF q = "POOR" THEN Rat(5, 10)
    ELSE One

\* wasteRatio of calculateWasteScore: WastedMonthlyCost / EstimatedMonthlyCost,
\* raised to 0 when negative
WasteRatio(det) ==
    LET wasteRatio == FDiv(det.WastedMonthlyCost, det.EstimatedMonthlyCost)
    IN  IF FLt(wasteRatio, Zero) THEN Zero ELSE wasteRatio

calculateWasteScore(det) ==
    IF det.EstimatedMonthlyCost = Zero THEN Zero
    ELSE LET baseScore == FMul(WasteRatio(det), Hundred)
             score == FMul(FMul(baseScore, SeverityMultiplier(det.WasteCategories)),
                           QualityMultiplier(det.DataQuality))
         IN  IF FLt(Hundred, score) THEN Hundred ELSE score

determineWasteSeverity(th, wasteScore) ==
    IF FLe(th.WasteScoreHighThreshold, wasteScore) THEN "HIGH"
    ELSE IF FLe(th.WasteScoreMediumThreshold, wasteScore) THEN "MEDIUM"
    ELSE "LOW"

RECURSIVE SumSavings(_)
SumSavings(recs) ==
    IF recs = <<>> THEN Zero
    ELSE FAdd(Head(recs).PotentialSavings, SumSavings(Tail(recs)))

calculatePotentialSavings(det) ==
    FMin(SumSavings(det.Recommendations), FMul(det.EstimatedMonthlyCost, Rat(9, 10)))

\* analyzeUnitWaste for a unit that is not skipped
analyzeUnitWaste(th, est, usage, hasUsageData) ==
    LET d0 == NewDetection(est)
        d1 == [d0 EXCEPT !.ActualMonthlyCost = usage.ActualMonthlyCost,
                         !.DataQuality  = assessDataQuality(usage),
                         !.CPUWaste     = analyzeCPUWaste(est, usage),
                         !.MemoryWaste  = analyzeMemoryWaste(est, usage),
                         !.ReplicaWaste = analyzeReplicaWaste(est, usage)]
        d2 == [d1 EXCEPT !.WasteCategories = categorizeWaste(th, d1, usage)]
        d3 == [d2 EXCEPT !.Recommendations = generateWasteRecommendations(d2, usage)]
        d  == IF hasUsageData THEN d3 ELSE analyzeWithoutUsageData(est)
        e1 == [d EXCEPT !.WastedMonthlyCost =
                            FSub(d.EstimatedMonthlyCost, d.ActualMonthlyCost)]
        e2 == [e1 EXCEPT !.WasteScore = calculateWasteScore(e1)]
        e3 == [e2 EXCEPT !.WasteSeverity = determineWasteSeverity(th, e2.WasteScore)]
    IN  [e3 EXCEPT !.PotentialSavings = calculatePotentialSavings(e3)]

\* the early return of analyzeUnitWaste
BelowMinimumCost(th, est) == FLt(est.MonthlyCost.v, th.MinMonthlyCostForAnalysis)


-----------------------------------------------------------------------------
(* The waste analyzer as a state machine: SetThresholds and analyzeUnitWaste *)

\* a second threshold set, stricter than the defaults
StrictWasteThresholds ==
    [DefaultWasteThresholds EXCEPT !.CPUIdleThreshold = I2F(2),
                                   !.WasteScoreHighThreshold = I2F(60),
                                   !.WasteScoreMediumThreshold = I2F(30)]
ThresholdSets == {DefaultWasteThresholds, StrictWasteThresholds}

\* the estimates AnalyzeSpace hands over: built by the cost analyzer under
\* its default pricing
WasteEstimates ==
    {LET r == calculateMonthlyCost(NewEstimate(Quantity(c, 0), Quantity(0, m),
                                               ZeroQuantity, n), DefaultPricing)
     IN  [r.estimate EXCEPT !.MonthlyCost = r.cost] :
        c \in {1000 * k : k \in 0..MaxCores},
        m \in {MiPerGi, MiPerGi * (MaxMemGi + 1)},
        n \in {0, 1, MaxCostReplicas}}

ZeroUsage ==
    [CPUUtilizationPercent |-> Zero, MemoryUtilizationPercent |-> Zero,
     CPUCoresUsed |-> Zero, MemoryBytesUsed |-> 0, ActualMonthlyCost |-> Zero,
     AverageReplicas |-> Zero, UptimePercent |-> Zero,
     CPUPeakPercent |-> Zero, MemoryPeakPercent |-> Zero,
     DataAgeHours |-> 0, DataSpanHours |-> 0]

\* (age, span) of the usage window, one pair per data quality
UsageWindows == {<<12, 8 * 24>>, <<2 * 24, 4 * 24>>, <<5 * 24, 2 * 24>>, <<10 * 24, 24>>}

UsageInputs ==
    {[CPUUtilizationPercent    |-> cu,
      MemoryUtilizationPercent |-> mu,
      CPUCoresUsed             |-> cc,
      MemoryBytesUsed          |-> mb,
      ActualMonthlyCost        |-> ac,
      AverageReplicas          |-> ar,
      UptimePercent            |-> up,
      CPUPeakPercent           |-> I2F(60),
      MemoryPeakPercent        |-> I2F(70),
      DataAgeHours             |-> w[1],
      DataSpanHours            |-> w[2]] :
        cu \in {Rat(1, 2), I2F(4), I2F(50)},
        mu \in {I2F(3), I2F(8), I2F(60)},
        cc \in {Rat(2, 10), Rat(25, 10)},
        mb \in {512, 6 * MiPerGi},
        ac \in {I2F(-10), I2F(20), I2F(500)},
        ar \in {Rat(1, 2), Rat(5, 2)},
        up \in {I2F(40), I2F(99)},
        w  \in UsageWindows}

NoDetection == [called |-> FALSE]

\* SetThresholds, before the unit at hand is analysed
SetThresholds(th) ==
    /\ ~detection.called
    /\ thresholds' = th
    /\ UNCHANGED <<pricing, estimate, detection, safetyConfig, config>>

\* wa.analyzeUnitWaste(costEstimate, usage, hasUsageData)
AnalyzeUnitWaste ==
    LET est   == detection.estimate
        usage == detection.usage
        has   == detection.hasUsageData
    IN  /\ ~detection.called
        /\ "estimate" \in DOMAIN detection
        /\ detection' =
              IF BelowMinimumCost(thresholds, est)
              THEN [called |-> TRUE, isNil |-> TRUE, hasUsageData |-> has,
                    estimate |-> est, usage |-> usage]
              ELSE [called |-> TRUE, isNil |-> FALSE, hasUsageData |-> has,
                    estimate |-> est, usage |-> usage,
                    out |-> analyzeUnitWaste(thresholds, est, usage, has)]
        /\ UNCHANGED <<pricing, estimate, thresholds, safetyConfig, config>>

-----------------------------------------------------------------------------
(* Quantity strings, YAML scalars and maps                                 *)
(*                                                                         *)
(* A scalar of a manifest is [typ, n, suffix]: typ is the Go type that     *)
(* yaml.Unmarshal gives it ("string" or "int"), n the number it spells and *)
(* suffix the unit that follows the number.  A Go string is a scalar of    *)
(* typ "string".  Text that is not a decimal numeral followed by a suffix  *)
(* is [typ, word, suffix], word being what stands before the suffix.  Byte *)
(* amounts are whole numbers of Mi (2^20 bytes).                           *)

Str(n, suffix) == [typ |-> "string", n |-> n, suffix |-> suffix]
YamlInt(i)     == [typ |-> "int", n |-> I2F(i), suffix |-> ""]
EmptyString    == Str(Zero, "<empty>")

\* fmt.Sprintf("%d", i), fmt.Sprintf("%.0fm", x), fmt.Sprintf("%.0fMi", x)
FormatInt(i)   == Str(I2F(i), "")
FormatMilli(x) == Str(I2F(RoundHalfEven(x)), "m")
FormatMi(x)    == Str(I2F(RoundHalfEven(x)), "Mi")

\* ResourceQuantity{}
ResourceQuantityZero == [Value |-> EmptyString, milli |-> 0, bytes |-> 0]

\* text whose part before the suffix is not a decimal numeral
Text(word, suffix) == [typ |-> "string", word |-> word, suffix |-> suffix]

\* strconv.ParseFloat on what stands before the suffix: decimal numerals,
\* and "NaN", "Inf" and "-Inf", are floats; any other word is an error
ParseFloat(value) ==
    IF "word" \notin DOMAIN value THEN [err |-> FALSE, val |-> Fin(value.n)]
    ELSE IF value.word = "NaN" THEN [err |-> FALSE, val |-> NaN]
    ELSE IF value.word = "Inf" THEN [err |-> FALSE, val |-> PInf]
    ELSE IF value.word = "-Inf" THEN [err |-> FALSE, val |-> NInf]
    ELSE [err |-> TRUE]

\* the integers that stand for math.MinInt64 and math.MaxInt64
MinInt64 == -2147483647
MaxInt64 == 2147483647

\* int64(x): the truncation of a float in range; the conversion of NaN and
\* of the infinities is implementation-dependent, 0x8000000000000000 on
\* amd64 and the saturated value on arm64
Int64(build, x) ==
    IF x.k = "fin" THEN Trunc(x.v)
    ELSE IF build = "amd64" THEN MinInt64
    ELSE IF XIsNaN(x) THEN 0
    ELSE IF x = PInf THEN MaxInt64
    ELSE MinInt64

\* the multiplications done for a suffix, 1000 taken for 1024 (mutation of
\* SuffixScale)
SuffixScaleDecimal(suffix) ==
    IF suffix \in {"K", "Ki"} THEN [base |-> 1000, times |-> 1]
    ELSE IF suffix \in {"M", "Mi"} THEN [base |-> 1000, times |-> 2]
    ELSE IF suffix \in {"G", "Gi"} THEN [base |-> 1000, times |-> 3]
    ELSE IF suffix \in {"T", "Ti"} THEN [base |-> 1000, times |-> 4]
    ELSE IF suffix \in {"P", "Pi"} THEN [base |-> 1000, times |-> 5]
    ELSE [base |-> 1000, times |-> 6]

\* the multiplications done for a suffix: val * base * ... * base
SuffixScale(suffix) ==
    IF suffix = "Ki" THEN [base |-> 1024, times |-> 1]
    ELSE IF suffix = "Mi" THEN [base |-> 1024, times |-> 2]
    ELSE IF suffix = "Gi" THEN [base |-> 1024, times |-> 3]
    ELSE IF suffix = "Ti" THEN [base |-> 1024, times |-> 4]
    ELSE IF suffix = "Pi" THEN [base |-> 1024, times |-> 5]
    ELSE IF suffix = "K" THEN [base |-> 1000, times |-> 1]
    ELSE IF suffix = "M" THEN [base |-> 1000, times |-> 2]
    ELSE IF suffix = "G" THEN [base |-> 1000, times |-> 3]
    ELSE IF suffix = "T" THEN [base |-> 1000, times |-> 4]
    ELSE IF suffix = "P" THEN [base |-> 1000, times |-> 5]
    ELSE [base |-> 1000, times |-> 6]

ByteSuffixes == {"Ki", "Mi", "Gi", "Ti", "Pi", "K", "M", "G", "T", "P", "E"}

\* x * base * ... * base
RECURSIVE Times(_, _, _)
Times(x, base, times) ==
    IF times = 0 THEN x ELSE Times(FMul(x, I2F(base)), base, times - 1)

\* val * base * ... * base bytes, in Mi; an infinity and NaN stay what they are
Scaled(val, scale) ==
    IF val.k = "fin"
    THEN Fin(Times(FDiv(val.v, I2F(MiPerGi * MiPerGi)), scale.base, scale.times))
    ELSE val

\* ParseQuantity once ParseFloat has returned
ParsedQuantity(build, value, float) ==
    [Value |-> value,
     milli |-> IF float.err \/ value.suffix \in ByteSuffixes THEN 0
               ELSE IF value.suffix = "m" THEN Int64(build, float.val)
               ELSE Int64(build, XMul(float.val, Fin(I2F(1000)))),
     bytes |-> IF float.err \/ value.suffix \notin ByteSuffixes THEN 0
               ELSE Int64(build, Scaled(float.val, SuffixScale(value.suffix)))]

\* ParseQuantity as the build for an architecture does it; text that ends
\* in none of the suffixes is parsed as a whole
ParseQuantityOn(build, value) ==
    IF value = EmptyString THEN [Value |-> value, milli |-> 0, bytes |-> 0]
    ELSE IF value.suffix \in ByteSuffixes \cup {"m", ""}
    THEN ParsedQuantity(build, value, ParseFloat(value))
    ELSE ParsedQuantity(build, value, [err |-> TRUE])

\* the numbers of a manifest are decimal numerals, which every build
\* converts alike
ParseQuantity(value) == ParseQuantityOn("amd64", value)

\* rq.String()
String(rq) == rq.Value

\* rq.Add(other): the sums, and the string rebuilt from them
Add(rq, other) ==
    LET milli == rq.milli + other.milli
        bytes == rq.bytes + other.bytes
    IN  [Value |-> IF milli > 0 /\ bytes = 0
                   THEN IF milli % 1000 = 0 THEN FormatInt(milli \div 1000)
                        ELSE Str(I2F(milli), "m")
                   ELSE IF bytes > 0 /\ milli = 0
                   THEN IF bytes >= MiPerGi /\ bytes % MiPerGi = 0
                        THEN Str(I2F(bytes \div MiPerGi), "Gi")
                        ELSE Str(I2F(bytes), "Mi")
                   ELSE rq.Value,
         milli |-> milli,
         bytes |-> bytes]

\* map[string]interface{}: a function on the set of its keys
EmptyMap     == [k \in {} |-> EmptyString]
Has(m, k)    == k \in DOMAIN m
Put(m, k, v) == [x \in (DOMAIN m) \cup {k} |-> IF x = k THEN v ELSE m[x]]

\* convertToString: strings as they are, ints by %d
convertToString(val) ==
    IF val.typ = "string" THEN val
    ELSE IF val.typ = "int" THEN Str(val.n, val.suffix)
    ELSE EmptyString

-----------------------------------------------------------------------------
(* optimizer.go: reading the resources of a manifest                       *)
(*                                                                         *)
(* A manifest is [kind, apiVersion, replicas, containers,                  *)
(* volumeClaimTemplates]: replicas is {} when spec.replicas is absent and  *)
(* {n} when it is the int n; a container is its resources map (keys        *)
(* "requests" and "limits", each a map from "cpu" and "memory" to a        *)
(* scalar); a volume claim template is its storage request.                *)
(* unit.Data is such a manifest, or text that does not parse, or an empty  *)
(* document; apiVersion says whether the text contains "apiVersion".       *)

\* unit.Data that yaml.Unmarshal rejects
UnparsableData(api) == [unparsable |-> TRUE, apiVersion |-> api]
IsUnparsable(data)  == "unparsable" \in DOMAIN data

\* unit.Data of an empty document: it unmarshals to a nil map
NilManifest(api)        == [nil |-> TRUE, apiVersion |-> api]
IsNilManifest(manifest) == "nil" \in DOMAIN manifest

\* kind, _ := manifest["kind"].(string)
KindOf(manifest) == IF IsNilManifest(manifest) THEN "" ELSE manifest.kind

DefaultSafetyConfiguration ==
    [CPUSafetyMargin     |-> Rat(20, 100),
     MemorySafetyMargin  |-> Rat(15, 100),
     MinCPUCores         |-> Rat(1, 10),
     MinMemoryGB         |-> Rat(128, 1000),
     MinReplicas         |-> 1,
     MaxReplicaReduction |-> Rat(1, 2),
     RiskThresholds      |-> [LowRiskCPUReduction     |-> Rat(30, 100),
                              LowRiskMemoryReduction  |-> Rat(25, 100),
                              HighRiskCPUReduction    |-> Rat(60, 100),
                              HighRiskMemoryReduction |-> Rat(50, 100)]]

\* the quantity under resources[section][resource], zero when absent
ContainerQuantity(container, section, resource) ==
    IF Has(container, section) /\ Has(container[section], resource)
       /\ convertToString(container[section][resource]) # EmptyString
    THEN ParseQuantity(convertToString(container[section][resource]))
    ELSE ResourceQuantityZero

extractSingleContainerResources(container) ==
    [HasRequests |-> Has(container, "requests"),
     HasLimits   |-> Has(container, "limits"),
     CPURequests |-> ContainerQuantity(container, "requests", "cpu"),
     MemRequests |-> ContainerQuantity(container, "requests", "memory"),
     CPULimits   |-> ContainerQuantity(container, "limits", "cpu"),
     MemLimits   |-> ContainerQuantity(container, "limits", "memory")]

\* extractSingleContainerResources returns nil
IsNilInfo(info) == ~(info.HasRequests \/ info.HasLimits)

addContainerResourcesToSpecs(info, specs) ==
    IF info.HasRequests
    THEN [specs EXCEPT
            !.CPU    = IF info.CPURequests.milli > 0 THEN Add(@, info.CPURequests) ELSE @,
            !.Memory = IF info.MemRequests.bytes > 0 THEN Add(@, info.MemRequests) ELSE @]
    ELSE IF info.HasLimits
    THEN [specs EXCEPT
            !.CPU    = IF info.CPULimits.milli > 0 THEN Add(@, info.CPULimits) ELSE @,
            !.Memory = IF info.MemLimits.bytes > 0 THEN Add(@, info.MemLimits) ELSE @]
    ELSE specs

extractStorageSpecs(vct, specs) ==
    IF vct.typ \in {"string", "int"} /\ ParseQuantity(convertToString(vct)).bytes > 0
    THEN [specs EXCEPT !.Storage = Add(@, ParseQuantity(convertToString(vct)))]
    ELSE specs

RECURSIVE AddContainers(_, _)
AddContainers(containers, specs) ==
    IF containers = <<>> THEN specs
    ELSE LET info == extractSingleContainerResources(Head(containers))
         IN  AddContainers(Tail(containers),
                           IF IsNilInfo(info) THEN specs
                           ELSE addContainerResourcesToSpecs(info, specs))

RECURSIVE AddVolumeClaims(_, _)
AddVolumeClaims(vcts, specs) ==
    IF vcts = <<>> THEN specs
    ELSE AddVolumeClaims(Tail(vcts), extractStorageSpecs(Head(vcts), specs))

\* spec.replicas: the int when there is one, 1 by default
ReplicasOf(manifest) ==
    IF manifest.replicas = {} THEN 1 ELSE CHOOSE n \in manifest.replicas : TRUE

\* a nil *ResourceSpecs
NilSpecs == [nil |-> TRUE]
IsNilSpecs(specs) == "nil" \in DOMAIN specs

extractResourceSpecs(manifest) ==
    IF IsNilManifest(manifest) THEN NilSpecs
    ELSE AddVolumeClaims(manifest.volumeClaimTemplates,
            AddContainers(manifest.containers,
                [CPU |-> ResourceQuantityZero, Memory |-> ResourceQuantityZero,
                 Storage |-> ResourceQuantityZero, Replicas |-> ReplicasOf(manifest)]))

-----------------------------------------------------------------------------
(* optimizer.go: the proposals for CPU, memory and replicas                *)

\* a nil *ResourceOptimization
NilOptimization == [nil |-> TRUE]

\* the middle category left out (mutation of categorizeRisk)
categorizeRiskTwoWay(reductionPercent, lowThreshold, highThreshold) ==
    IF FLt(reductionPercent, lowThreshold) THEN "LOW" ELSE "HIGH"

categorizeRisk(reductionPercent, lowThreshold, highThreshold) ==
    IF FLt(reductionPercent, lowThreshold) THEN "LOW"
    ELSE IF FLt(highThreshold, reductionPercent) THEN "HIGH"
    ELSE "MEDIUM"

\* if optimized < min { optimized = min }
EnforceMinimum(optimized, minimum) ==
    IF FLt(optimized, minimum) THEN minimum ELSE optimized

\* the safety margin left out (mutation of ApplySafetyMargin)
ApplySafetyMarginOff(optimized, margin) == optimized

\* optimized = optimized * (1 + margin)
ApplySafetyMargin(optimized, margin) == FMul(optimized, FAdd(One, margin))

optimizeCPU(cfg, current, wastePercent, confidence) ==
    LET currentMillis    == I2F(current.milli)
        reductionPercent == FMin(FMul(wastePercent, confidence), Rat(7, 10))
        reduction        == FMul(currentMillis, reductionPercent)
        withMargin       == ApplySafetyMargin(FSub(currentMillis, reduction),
                                              cfg.CPUSafetyMargin)
        minMillis        == FMul(cfg.MinCPUCores, I2F(1000))
        optimizedMillis  == EnforceMinimum(withMargin, minMillis)
        finalReduction   == FDiv(FSub(currentMillis, optimizedMillis), currentMillis)
    IN  IF FLe(wastePercent, Rat(1, 10)) \/ FLt(confidence, Rat(1, 2))
        THEN NilOptimization
        ELSE IF current.milli = 0 THEN NilOptimization
        ELSE IF FLt(finalReduction, Rat(5, 100)) THEN NilOptimization
        ELSE [nil              |-> FALSE,
              Type             |-> "cpu",
              OriginalValue    |-> current.Value,
              OptimizedValue   |-> FormatMilli(optimizedMillis),
              ReductionPercent |-> FMul(finalReduction, Hundred),
              Risk             |-> categorizeRisk(finalReduction,
                                       cfg.RiskThresholds.LowRiskCPUReduction,
                                       cfg.RiskThresholds.HighRiskCPUReduction)]

optimizeMemory(cfg, current, wastePercent, confidence) ==
    LET currentBytes     == I2F(current.bytes)
        reductionPercent == FMin(FMul(wastePercent, confidence), Rat(6, 10))
        reduction        == FMul(currentBytes, reductionPercent)
        withMargin       == ApplySafetyMargin(FSub(currentBytes, reduction),
                                              cfg.MemorySafetyMargin)
        minBytes         == FMul(cfg.MinMemoryGB, I2F(MiPerGi))
        optimizedBytes   == EnforceMinimum(withMargin, minBytes)
        finalReduction   == FDiv(FSub(currentBytes, optimizedBytes), currentBytes)
    IN  IF FLe(wastePercent, Rat(1, 10)) \/ FLt(confidence, Rat(1, 2))
        THEN NilOptimization
        ELSE IF current.bytes = 0 THEN NilOptimization
        ELSE IF FLt(finalReduction, Rat(5, 100)) THEN NilOptimization
        ELSE [nil              |-> FALSE,
              Type             |-> "memory",
              OriginalValue    |-> current.Value,
              OptimizedValue   |-> FormatMi(optimizedBytes),
              ReductionPercent |-> FMul(finalReduction, Hundred),
              Risk             |-> categorizeRisk(finalReduction,
                                       cfg.RiskThresholds.LowRiskMemoryReduction,
                                       cfg.RiskThresholds.HighRiskMemoryReduction)]

\* the cap on the reduction ratio left out (mutation of CapReplicaReduction)
CapReplicaReductionOff(cfg, current, optimized) == optimized

\* if reductionRatio > MaxReplicaReduction { optimized = current - int32(...) }
CapReplicaReduction(cfg, current, optimized) ==
    IF FLt(cfg.MaxReplicaReduction, Rat(current - optimized, current))
    THEN current - Trunc(FMul(I2F(current), cfg.MaxReplicaReduction))
    ELSE optimized

optimizeReplicas(cfg, current, idle) ==
    LET floored        == IF current - idle < cfg.MinReplicas
                          THEN cfg.MinReplicas ELSE current - idle
        optimized      == CapReplicaReduction(cfg, current, floored)
        finalReduction == Rat(current - optimized, current)
    IN  IF idle <= 0 \/ current <= cfg.MinReplicas THEN NilOptimization
        ELSE IF optimized >= current THEN NilOptimization
        ELSE [nil              |-> FALSE,
              Type             |-> "replicas",
              OriginalValue    |-> FormatInt(current),
              OptimizedValue   |-> FormatInt(optimized),
              ReductionPercent |-> FMul(finalReduction, Hundred),
              Risk             |-> IF FLt(Rat(1, 2), finalReduction)
                                   THEN "HIGH" ELSE "MEDIUM"]

-----------------------------------------------------------------------------
(* optimizer.go: writing a proposal back into the manifest                 *)

\* the amount that counts as the container's current one: its request when
\* positive, else its limit when positive, else nothing
ContainerAmount(info, resourceType) ==
    IF resourceType = "cpu"
    THEN IF info.HasRequests /\ info.CPURequests.milli > 0 THEN info.CPURequests
         ELSE IF info.HasLimits /\ info.CPULimits.milli > 0 THEN info.CPULimits
         ELSE ResourceQuantityZero
    ELSE IF resourceType = "memory"
    THEN IF info.HasRequests /\ info.MemRequests.bytes > 0 THEN info.MemRequests
         ELSE IF info.HasLimits /\ info.MemLimits.bytes > 0 THEN info.MemLimits
         ELSE ResourceQuantityZero
    ELSE ResourceQuantityZero

\* MilliValue for cpu, BytesValue for memory
AmountOf(quantity, resourceType) ==
    IF resourceType = "cpu" THEN quantity.milli
    ELSE IF resourceType = "memory" THEN quantity.bytes
    ELSE 0

RECURSIVE extractContainerInfosFromManifest(_)
extractContainerInfosFromManifest(containers) ==
    IF containers = <<>> THEN <<>>
    ELSE <<extractSingleContainerResources(Head(containers))>>
         \o extractContainerInfosFromManifest(Tail(containers))

\* the loop that sums currentTotal
RECURSIVE CurrentTotal(_, _)
CurrentTotal(containerInfos, resourceType) ==
    IF containerInfos = <<>> THEN ResourceQuantityZero
    ELSE LET rest   == CurrentTotal(Tail(containerInfos), resourceType)
             amount == ContainerAmount(Head(containerInfos), resourceType)
         IN  IF AmountOf(amount, resourceType) > 0 THEN Add(rest, amount) ELSE rest

\* every container counted as an equal share (mutation of
\* calculateContainerProportion)
calculateContainerProportionFlat(info, resourceType, currentTotal) ==
    IF AmountOf(currentTotal, resourceType) > 0 THEN Rat(1, 2) ELSE Zero

calculateContainerProportion(info, resourceType, currentTotal) ==
    IF AmountOf(currentTotal, resourceType) > 0
    THEN Rat(AmountOf(ContainerAmount(info, resourceType), resourceType),
             AmountOf(currentTotal, resourceType))
    ELSE Zero

calculateProportionalValue(totalOptimized, proportion, resourceType) ==
    IF resourceType = "cpu"
    THEN FormatMilli(FMul(I2F(totalOptimized.milli), proportion))
    ELSE IF resourceType = "memory"
    THEN FormatMi(FMul(I2F(totalOptimized.bytes), proportion))
    ELSE totalOptimized.Value

\* the request alone, the limits left as they are (mutation of
\* setContainerResourceSafely)
setContainerRequestOnly(container, resourceType, requestValue) ==
    Put(container, "requests",
        Put(IF Has(container, "requests") THEN container["requests"] ELSE EmptyMap,
            resourceType, requestValue))

\* the request, and a limit of 1.5 times (cpu) or 1.2 times (memory) it
setContainerResourceSafely(container, resourceType, requestValue) ==
    LET requestQuantity == ParseQuantity(requestValue)
        limitValue ==
            IF resourceType = "cpu"
            THEN FormatMilli(FMul(I2F(requestQuantity.milli), Rat(15, 10)))
            ELSE IF resourceType = "memory"
            THEN FormatMi(FMul(I2F(requestQuantity.bytes), Rat(12, 10)))
            ELSE requestValue
        requests == IF Has(container, "requests") THEN container["requests"] ELSE EmptyMap
        limits   == IF Has(container, "limits") THEN container["limits"] ELSE EmptyMap
    IN  Put(Put(container, "requests", Put(requests, resourceType, requestValue)),
            "limits", Put(limits, resourceType, limitValue))

distributeEquallyAmongContainers(containers, resourceType, totalValue) ==
    LET totalQuantity == ParseQuantity(totalValue)
        perContainerValue ==
            IF resourceType = "cpu"
            THEN FormatMilli(Rat(totalQuantity.milli, Len(containers)))
            ELSE IF resourceType = "memory"
            THEN FormatMi(Rat(totalQuantity.bytes, Len(containers)))
            ELSE totalValue
    IN  [i \in 1..Len(containers) |->
            setContainerResourceSafely(containers[i], resourceType, perContainerValue)]

distributeOptimizedResource(containers, containerInfos, resourceType, totalOptimizedValue) ==
    LET totalOptimized  == ParseQuantity(totalOptimizedValue)
        currentTotal    == CurrentTotal(containerInfos, resourceType)
        hasAnyResources ==
            \E i \in 1..Len(containerInfos) :
                AmountOf(ContainerAmount(containerInfos[i], resourceType), resourceType) > 0
        proportion(i)   ==
            calculateContainerProportion(containerInfos[i], resourceType, currentTotal)
    IN  IF Len(containers) = 0 \/ Len(containerInfos) = 0 THEN containers
        ELSE IF ~hasAnyResources
        THEN distributeEquallyAmongContainers(containers, resourceType, totalOptimizedValue)
        ELSE [i \in 1..Len(containers) |->
                IF i <= Len(containerInfos) /\ FLt(Zero, proportion(i))
                THEN setContainerResourceSafely(containers[i], resourceType,
                        calculateProportionalValue(totalOptimized, proportion(i), resourceType))
                ELSE containers[i]]

applyResourceOptimization(manifest, resourceType, totalOptimizedValue) ==
    [manifest EXCEPT !.containers =
        distributeOptimizedResource(@, extractContainerInfosFromManifest(@),
                                    resourceType, totalOptimizedValue)]

\* strconv.Atoi succeeds on a plain integer
applyReplicaOptimization(manifest, optimizedValue) ==
    IF optimizedValue.suffix = "" /\ optimizedValue.n[2] = 1
    THEN [manifest EXCEPT !.replicas = {optimizedValue.n[1]}]
    ELSE manifest

-----------------------------------------------------------------------------
(* cost.go: the estimate of a unit, as calculateCostSavings asks for it    *)

\* extractContainerResources: the requests when the map is there, else the
\* limits; only string scalars count
extractContainerResources(container, est) ==
    LET section == IF Has(container, "requests") THEN "requests"
                   ELSE IF Has(container, "limits") THEN "limits"
                   ELSE "none"
        isString(resource) ==
            /\ section # "none"
            /\ Has(container[section], resource)
            /\ container[section][resource].typ = "string"
    IN  [est EXCEPT
            !.CPU    = IF isString("cpu")
                       THEN Add(@, ParseQuantity(container[section]["cpu"])) ELSE @,
            !.Memory = IF isString("memory")
                       THEN Add(@, ParseQuantity(container[section]["memory"])) ELSE @]

extractStorageResources(vct, est) ==
    IF vct.typ = "string" THEN [est EXCEPT !.Storage = Add(@, ParseQuantity(vct))]
    ELSE est

RECURSIVE CostContainers(_, _)
CostContainers(containers, est) ==
    IF containers = <<>> THEN est
    ELSE CostContainers(Tail(containers), extractContainerResources(Head(containers), est))

RECURSIVE CostVolumeClaims(_, _)
CostVolumeClaims(vcts, est) ==
    IF vcts = <<>> THEN est
    ELSE CostVolumeClaims(Tail(vcts), extractStorageResources(Head(vcts), est))

\* the estimate with its cost and breakdown filled in
SetMonthlyCost(r) == [r.estimate EXCEPT !.MonthlyCost = r.cost]
WithMonthlyCost(est, pr) == SetMonthlyCost(calculateMonthlyCost(est, pr))

analyzeDeployment(manifest, pr) ==
    WithMonthlyCost(CostContainers(manifest.containers,
                NewEstimate(ResourceQuantityZero, ResourceQuantityZero,
                            ResourceQuantityZero, ReplicasOf(manifest))), pr)

analyzeStatefulSet(manifest, pr) ==
    WithMonthlyCost(CostContainers(manifest.containers,
                CostVolumeClaims(manifest.volumeClaimTemplates,
                    NewEstimate(ResourceQuantityZero, ResourceQuantityZero,
                                ResourceQuantityZero, ReplicasOf(manifest)))), pr)

analyzeDaemonSet(manifest, pr) ==
    WithMonthlyCost(CostContainers(manifest.containers,
                NewEstimate(ResourceQuantityZero, ResourceQuantityZero,
                            ResourceQuantityZero, 3)), pr)

\* a nil *UnitCostEstimate
NilEstimate == [nil |-> TRUE]

IsNilEstimate(est) == "nil" \in DOMAIN est

\* analyzeUnit on the data of a unit: the estimate, or nil with or without
\* an error
analyzeUnit(data, pr) ==
    IF ~data.apiVersion THEN NilEstimate
    ELSE IF IsUnparsable(data) THEN [nil |-> TRUE, err |-> "failed to parse manifest"]
    ELSE IF KindOf(data) = "Deployment" THEN analyzeDeployment(data, pr)
    ELSE IF KindOf(data) = "StatefulSet" THEN analyzeStatefulSet(data, pr)
    ELSE IF KindOf(data) = "DaemonSet" THEN analyzeDaemonSet(data, pr)
    ELSE NilEstimate

-----------------------------------------------------------------------------
(* optimizer.go: savings, risk and the three kinds of workload             *)

\* CostSavings{}
ZeroCostSavings ==
    [MonthlySavings |-> Zero, CurrentMonthlyCost |-> Zero,
     OptimizedMonthlyCost |-> Zero, SavingsPercent |-> Zero,
     Breakdown |-> [CPUSavings |-> Zero, MemorySavings |-> Zero, StorageSavings |-> Zero]]

\* the savings between the estimates of the original and the optimized unit
CostSavingsBetween(originalEstimate, optimizedEstimate) ==
    IF IsNilEstimate(originalEstimate) \/ IsNilEstimate(optimizedEstimate)
    THEN ZeroCostSavings
    ELSE [MonthlySavings       |-> FSub(originalEstimate.MonthlyCost.v,
                                        optimizedEstimate.MonthlyCost.v),
          CurrentMonthlyCost   |-> originalEstimate.MonthlyCost.v,
          OptimizedMonthlyCost |-> optimizedEstimate.MonthlyCost.v,
          SavingsPercent       |->
              IF FLt(Zero, originalEstimate.MonthlyCost.v)
              THEN FMul(FDiv(FSub(originalEstimate.MonthlyCost.v,
                                  optimizedEstimate.MonthlyCost.v),
                             originalEstimate.MonthlyCost.v), Hundred)
              ELSE Zero,
          Breakdown |->
              [CPUSavings     |-> FSub(originalEstimate.Breakdown.CPUCost.v,
                                       optimizedEstimate.Breakdown.CPUCost.v),
               MemorySavings  |-> FSub(originalEstimate.Breakdown.MemoryCost.v,
                                       optimizedEstimate.Breakdown.MemoryCost.v),
               StorageSavings |-> FSub(originalEstimate.Breakdown.StorageCost.v,
                                       optimizedEstimate.Breakdown.StorageCost.v)]]

\* the engine's own cost analyzer keeps the default pricing, under which
\* every cost is finite
calculateCostSavings(original, optimized) ==
    CostSavingsBetween(analyzeUnit(original, DefaultPricing),
                       analyzeUnit(optimized, DefaultPricing))

\* highestRisk after the loop over the optimizations
RECURSIVE HighestRisk(_)
HighestRisk(optimizations) ==
    IF optimizations = <<>> THEN "LOW"
    ELSE LET rest == HighestRisk(Tail(optimizations))
         IN  IF Head(optimizations).Risk = "HIGH" \/ rest = "HIGH" THEN "HIGH"
             ELSE IF Head(optimizations).Risk = "MEDIUM" \/ rest = "MEDIUM" THEN "MEDIUM"
             ELSE "LOW"

\* one risk factor per HIGH or MEDIUM optimization, in order
RECURSIVE RiskFactors(_)
RiskFactors(optimizations) ==
    IF optimizations = <<>> THEN <<>>
    ELSE (IF Head(optimizations).Risk \in {"HIGH", "MEDIUM"}
          THEN <<[Level |-> Head(optimizations).Risk,
                  Type |-> Head(optimizations).Type,
                  ReductionPercent |-> Head(optimizations).ReductionPercent]>>
          ELSE <<>>)
         \o RiskFactors(Tail(optimizations))

\* one mitigation per optimization, named by the dimension it is about
Mitigations(optimizations) ==
    [i \in 1..Len(optimizations) |-> optimizations[i].Type]

\* the confidence left as it is (mutation of AdjustedConfidence)
AdjustedConfidenceOff(highestRisk, wasteConfidence) == wasteConfidence

\* adjustedConfidence := wasteConfidence, times 0.7 or 0.85 by the risk
AdjustedConfidence(highestRisk, wasteConfidence) ==
    IF highestRisk = "HIGH" THEN FMul(wasteConfidence, Rat(7, 10))
    ELSE IF highestRisk = "MEDIUM" THEN FMul(wasteConfidence, Rat(85, 100))
    ELSE wasteConfidence

assessOptimizationRisk(optimizations, wasteConfidence) ==
    LET highestRisk == HighestRisk(optimizations)
        adjustedConfidence == AdjustedConfidence(highestRisk, wasteConfidence)
    IN  IF Len(optimizations) = 0
        THEN [OverallRisk |-> "LOW", RiskFactors |-> <<>>, Mitigations |-> <<>>,
              Confidence |-> One, RecommendedPhase |-> "prod"]
        ELSE [OverallRisk      |-> highestRisk,
              RiskFactors      |-> RiskFactors(optimizations),
              Mitigations      |-> Mitigations(optimizations),
              Confidence       |-> adjustedConfidence,
              RecommendedPhase |->
                  IF FLt(adjustedConfidence, Rat(4, 10)) THEN "dev"
                  ELSE IF highestRisk = "HIGH" \/ FLt(adjustedConfidence, Rat(6, 10))
                  THEN "staging"
                  ELSE "prod"]

\* the sequence of the proposals that are not nil
Proposals(opts) == SelectSeq(opts, LAMBDA o : ~o.nil)

\* SafetyMargins{}
ZeroSafetyMargins ==
    [CPUMarginApplied |-> FALSE, MemoryMarginApplied |-> FALSE,
     ReplicaFloorApplied |-> FALSE, ActualCPUMargin |-> Zero,
     ActualMemoryMargin |-> Zero]

\* the *OptimizedConfiguration handed back with a nil error
OptimizedConfiguration(manifest, optimizedManifest, optimizations, waste, appliedSafety) ==
    [err              |-> "",
     OriginalUnit     |-> manifest,
     OptimizedUnit    |-> optimizedManifest,
     Optimizations    |-> optimizations,
     EstimatedSavings |-> calculateCostSavings(manifest, optimizedManifest),
     RiskAssessment   |-> assessOptimizationRisk(optimizations, waste.WasteConfidence),
     AppliedSafety    |-> appliedSafety]

\* the manifest with a proposal applied to it, as it is when there is none
WithResourceProposal(manifest, resourceType, opt) ==
    IF opt.nil THEN manifest
    ELSE applyResourceOptimization(manifest, resourceType, opt.OptimizedValue)
WithReplicaProposal(manifest, opt) ==
    IF opt.nil THEN manifest
    ELSE applyReplicaOptimization(manifest, opt.OptimizedValue)

\* optimizeDeployment once the three proposals are known
DeploymentResult(cfg, manifest, waste, currentResources, cpuOpt, memOpt, replicaOpt) ==
    OptimizedConfiguration(manifest,
        WithReplicaProposal(
            WithResourceProposal(WithResourceProposal(manifest, "cpu", cpuOpt),
                                 "memory", memOpt),
            replicaOpt),
        Proposals(<<cpuOpt, memOpt, replicaOpt>>),
        waste,
        [CPUMarginApplied    |-> ~cpuOpt.nil,
         MemoryMarginApplied |-> ~memOpt.nil,
         ReplicaFloorApplied |-> ~replicaOpt.nil
                                 /\ currentResources.Replicas <= cfg.MinReplicas,
         ActualCPUMargin     |-> IF cpuOpt.nil THEN Zero ELSE cfg.CPUSafetyMargin,
         ActualMemoryMargin  |-> IF memOpt.nil THEN Zero ELSE cfg.MemorySafetyMargin])

\* optimizeDeployment once the current resources are extracted
DeploymentProposals(cfg, manifest, waste, currentResources) ==
    DeploymentResult(cfg, manifest, waste, currentResources,
        IF FLt(Rat(1, 10), waste.CPUWastePercent)
        THEN optimizeCPU(cfg, currentResources.CPU, waste.CPUWastePercent,
                         waste.WasteConfidence)
        ELSE NilOptimization,
        IF FLt(Rat(1, 10), waste.MemoryWastePercent)
        THEN optimizeMemory(cfg, currentResources.Memory, waste.MemoryWastePercent,
                            waste.WasteConfidence)
        ELSE NilOptimization,
        IF waste.IdleReplicas > 0
        THEN optimizeReplicas(cfg, currentResources.Replicas, waste.IdleReplicas)
        ELSE NilOptimization)

\* fmt.Errorf("no resource specifications found")
NoResourceSpecifications == [err |-> "no resource specifications found"]

optimizeDeployment(cfg, manifest, waste) ==
    IF IsNilSpecs(extractResourceSpecs(manifest)) THEN NoResourceSpecifications
    ELSE DeploymentProposals(cfg, manifest, waste, extractResourceSpecs(manifest))

\* the metrics handed on as they are (mutation of conservativeWaste)
conservativeWasteOff(waste) == waste

\* the more conservative metrics a StatefulSet is optimized with
conservativeWaste(waste) ==
    [CPUWastePercent    |-> FMul(waste.CPUWastePercent, Rat(7, 10)),
     MemoryWastePercent |-> FMul(waste.MemoryWastePercent, Rat(7, 10)),
     IdleReplicas       |-> Trunc(Rat(waste.IdleReplicas, 2)),
     WasteConfidence    |-> FMul(waste.WasteConfidence, Rat(8, 10))]

optimizeStatefulSet(cfg, manifest, waste) ==
    optimizeDeployment(cfg, manifest, conservativeWaste(waste))

\* optimizeDaemonSet once the two proposals are known
DaemonSetResult(manifest, waste, cpuOpt, memOpt) ==
    OptimizedConfiguration(manifest,
        WithResourceProposal(WithResourceProposal(manifest, "cpu", cpuOpt),
                             "memory", memOpt),
        Proposals(<<cpuOpt, memOpt>>),
        waste,
        [ZeroSafetyMargins EXCEPT !.CPUMarginApplied = ~cpuOpt.nil,
                                  !.MemoryMarginApplied = ~memOpt.nil])

\* the threshold of the Deployment path (mutation of AboveDaemonSetThreshold)
AboveDeploymentThreshold(wastePercent) == FLt(Rat(1, 10), wastePercent)

\* waste.CPUWastePercent > 0.15, waste.MemoryWastePercent > 0.15
AboveDaemonSetThreshold(wastePercent) == FLt(Rat(15, 100), wastePercent)

\* optimizeDaemonSet once the current resources are extracted
DaemonSetProposals(cfg, manifest, waste, currentResources) ==
    DaemonSetResult(manifest, waste,
        IF AboveDaemonSetThreshold(waste.CPUWastePercent)
        THEN optimizeCPU(cfg, currentResources.CPU, waste.CPUWastePercent,
                         waste.WasteConfidence)
        ELSE NilOptimization,
        IF AboveDaemonSetThreshold(waste.MemoryWastePercent)
        THEN optimizeMemory(cfg, currentResources.Memory, waste.MemoryWastePercent,
                            waste.WasteConfidence)
        ELSE NilOptimization)

optimizeDaemonSet(cfg, manifest, waste) ==
    IF IsNilSpecs(extractResourceSpecs(manifest)) THEN NoResourceSpecifications
    ELSE DaemonSetProposals(cfg, manifest, waste, extractResourceSpecs(manifest))

\* GenerateOptimizedUnit on the data of a unit: the configuration or the error
GenerateOptimizedUnitOf(cfg, data, waste) ==
    IF IsUnparsable(data) THEN [err |-> "failed to parse manifest"]
    ELSE IF KindOf(data) = "Deployment" THEN optimizeDeployment(cfg, data, waste)
    ELSE IF KindOf(data) = "StatefulSet" THEN optimizeStatefulSet(cfg, data, waste)
    ELSE IF KindOf(data) = "DaemonSet" THEN optimizeDaemonSet(cfg, data, waste)
    ELSE [err |-> "unsupported resource type for optimization", kind |-> KindOf(data)]

-----------------------------------------------------------------------------
(* The optimization engine as a state machine                              *)

MaxReplicas   == 21  \* largest replica count of a workload
MaxContainers == 3   \* most containers in a pod

Resources(cpu, memory) == Put(Put(EmptyMap, "cpu", cpu), "memory", memory)
Container(requests, limits) ==
    Put(Put(EmptyMap, "requests", requests), "limits", limits)
RequestsOnly(requests) == Put(EmptyMap, "requests", requests)
LimitsOnly(limits)     == Put(EmptyMap, "limits", limits)

MainContainer    == RequestsOnly(Resources(Str(I2F(1000), "m"), Str(I2F(2), "Gi")))
SidecarContainer == RequestsOnly(Resources(Str(I2F(500), "m"), Str(I2F(1), "Gi")))
BurstContainer   == Container(Resources(Str(I2F(200), "m"), Str(I2F(256), "Mi")),
                              Resources(Str(I2F(400), "m"), Str(I2F(512), "Mi")))
LimitedContainer == LimitsOnly(Resources(Str(I2F(300), "m"), Str(I2F(384), "Mi")))
BareContainer    == EmptyMap
SplitContainer   == Container(Put(EmptyMap, "memory", Str(I2F(128), "Mi")),
                              Put(EmptyMap, "cpu", Str(I2F(100), "m")))
AppContainer     == Container(Resources(Str(I2F(2000), "m"), Str(I2F(4), "Gi")),
                              Resources(Str(I2F(4000), "m"), Str(I2F(8), "Gi")))
SmallContainer   == RequestsOnly(Resources(Str(I2F(100), "m"), Str(I2F(128), "Mi")))
CoresContainer   == RequestsOnly(Resources(YamlInt(2), Str(I2F(1), "Gi")))

ContainerShapes ==
    {MainContainer, SidecarContainer, BurstContainer, LimitedContainer,
     BareContainer, SplitContainer}

\* every pod of up to MaxContainers containers of these shapes
ContainerLayouts ==
    UNION {[1..n -> ContainerShapes] : n \in 1..MaxContainers}

\* spec.replicas, the containers and the volume claim templates
Workloads ==
    {<<{5}, <<AppContainer>>, <<>>>>,
     <<{}, <<MainContainer, SidecarContainer>>, <<>>>>,
     <<{MaxReplicas}, <<BurstContainer, SmallContainer>>, <<Str(I2F(10), "Gi")>>>>,
     <<{1}, <<LimitedContainer, BareContainer>>, <<>>>>,
     <<{3}, <<CoresContainer, SplitContainer>>, <<YamlInt(5)>>>>,
     <<{2}, <<SmallContainer, SmallContainer, SmallContainer>>, <<>>>>,
     <<{4}, <<>>, <<>>>>}

NewManifest(kind, api, w) ==
    [kind |-> kind, apiVersion |-> api, replicas |-> w[1], containers |-> w[2],
     volumeClaimTemplates |-> w[3]]

Manifests ==
    {NewManifest(kind, TRUE, w) :
        kind \in {"Deployment", "StatefulSet", "DaemonSet", "Service"}, w \in Workloads}
    \cup {NewManifest("Deployment", FALSE, w) : w \in Workloads}

NewWasteMetrics(cpu, memory, idle, confidence) ==
    [CPUWastePercent |-> cpu, MemoryWastePercent |-> memory,
     IdleReplicas |-> idle, WasteConfidence |-> confidence]

WasteMetricsInputs ==
    {NewWasteMetrics(c, m, i, k) :
        c \in {Zero, Rat(1, 10), Rat(3, 4), Rat(9, 10)},
        m \in {Zero, Rat(1, 2)},
        i \in {0, 1, 2},
        k \in {Rat(3, 10), Rat(1, 2), Rat(9, 10)}}
    \cup {NewWasteMetrics(Rat(60, 100), Rat(40, 100), 0, Rat(85, 100)),
          NewWasteMetrics(Rat(12, 100), Rat(15, 100), 3, One)}

\* a configuration with other margins and floors than the default
TightSafetyConfiguration ==
    [DefaultSafetyConfiguration EXCEPT !.CPUSafetyMargin = Rat(1, 10),
                                       !.MemorySafetyMargin = Rat(1, 10),
                                       !.MinCPUCores = Rat(1, 4),
                                       !.MinMemoryGB = Rat(1, 4)]

\* a configuration without safety margins
NoMarginConfiguration ==
    [DefaultSafetyConfiguration EXCEPT !.CPUSafetyMargin = Zero,
                                       !.MemorySafetyMargin = Zero]

\* a configuration with other risk thresholds than the default
OtherThresholdsConfiguration ==
    [DefaultSafetyConfiguration EXCEPT
        !.RiskThresholds = [LowRiskCPUReduction     |-> Rat(10, 100),
                            LowRiskMemoryReduction  |-> Rat(10, 100),
                            HighRiskCPUReduction    |-> Rat(40, 100),
                            HighRiskMemoryReduction |-> Rat(30, 100)]]

SafetyConfigurations ==
    {[DefaultSafetyConfiguration EXCEPT !.MinReplicas = n, !.MaxReplicaReduction = r] :
        n \in {0, 1, 3}, r \in {Zero, Rat(1, 3), Rat(1, 2), One}}
    \cup {TightSafetyConfiguration, OtherThresholdsConfiguration,
          NoMarginConfiguration}

\* oe.SetSafetyConfiguration(config), before the call at hand
SetSafetyConfiguration(cfg) ==
    /\ ~config.called
    /\ safetyConfig' = cfg
    /\ UNCHANGED <<pricing, estimate, thresholds, detection, config>>

\* oe.GenerateOptimizedUnit(unit, wasteMetrics)
GenerateOptimizedUnit ==
    LET manifest == config.manifest
        waste    == config.waste
    IN  /\ ~config.called
        /\ config.op = "GenerateOptimizedUnit"
        /\ config' =
              [called |-> TRUE, op |-> config.op, manifest |-> manifest, waste |-> waste,
               out |-> GenerateOptimizedUnitOf(safetyConfig, manifest, waste)]
        /\ UNCHANGED <<pricing, estimate, thresholds, detection, safetyConfig>>

\* oe.optimizeReplicas(current, idle)
OptimizeReplicas ==
    /\ ~config.called
    /\ config.op = "optimizeReplicas"
    /\ config' = [called |-> TRUE, op |-> config.op,
                  current |-> config.current, idle |-> config.idle,
                  out |-> optimizeReplicas(safetyConfig, config.current, config.idle)]
    /\ UNCHANGED <<pricing, estimate, thresholds, detection, safetyConfig>>

\* the totals handed to the redistribution
OptimizedTotals ==
    {Str(I2F(780), "m"), Str(I2F(100), "m"), Str(I2F(1), ""),
     Str(I2F(2591), "Mi"), Str(I2F(131), "Mi"), Str(I2F(1), "Gi")}

\* oe.distributeOptimizedResource(containers, containerInfos, resourceType, total)
DistributeOptimizedResource ==
    /\ ~config.called
    /\ config.op = "distributeOptimizedResource"
    /\ config' = [called |-> TRUE, op |-> config.op,
                  containers |-> config.containers,
                  resourceType |-> config.resourceType,
                  total |-> config.total,
                  out |-> distributeOptimizedResource(config.containers,
                              extractContainerInfosFromManifest(config.containers),
                              config.resourceType, config.total)]
    /\ UNCHANGED <<pricing, estimate, thresholds, detection, safetyConfig>>

-----------------------------------------------------------------------------
\* the data of the units: the workloads above, manifests of other kinds or
\* without a kind, text that does not parse, and empty documents
UnitData ==
    Manifests
    \cup {NewManifest(kind, TRUE, <<{5}, <<AppContainer>>, <<>>>>) :
             kind \in {"", "ConfigMap"}}
    \cup {UnparsableData(api) : api \in BOOLEAN}
    \cup {NilManifest(api) : api \in BOOLEAN}

\* the waste metrics and the pricing models the units are analysed with
UnitWasteInputs ==
    {NewWasteMetrics(Rat(75, 100), Rat(50, 100), 2, Rat(9, 10)),
     NewWasteMetrics(Zero, Zero, 0, Rat(1, 2))}
UnitPricingModels ==
    {DefaultPricing, NilPricing, [DefaultPricing EXCEPT !.CPUHourly = Fin(Rat(1, 2))]}
UnitSafetyConfigurations == {DefaultSafetyConfiguration, TightSafetyConfiguration}

\* ca.analyzeUnit(unit); calculateMonthlyCost replaces a nil pricing model
\* by the default one when it is reached
AnalyzeUnit ==
    LET pr  == IF IsNilPricing(pricing) THEN DefaultPricing ELSE pricing
        out == analyzeUnit(estimate.unit, pr)
    IN  /\ ~estimate.called
        /\ "unit" \in DOMAIN estimate
        /\ pricing' = IF IsNilEstimate(out) THEN pricing ELSE pr
        /\ estimate' = [called |-> TRUE, unit |-> estimate.unit, out |-> out]
        /\ UNCHANGED <<thresholds, detection, safetyConfig, config>>

-----------------------------------------------------------------------------
(* The batch operations: BulkOptimizeUnits and AnalyzeSpace                *)

MaxUnits == 3  \* most units in the list that ListUnits returns

Unit(slug, data) == [Slug |-> slug, Data |-> data]

\* the units of a space: a Deployment, a StatefulSet with storage, a
\* DaemonSet, a manifest of another kind and a unit whose text does not parse
BatchUnits ==
    {Unit("web", NewManifest("Deployment", TRUE, <<{5}, <<AppContainer>>, <<>>>>)),
     Unit("db", NewManifest("StatefulSet", TRUE,
                    <<{3}, <<CoresContainer, SplitContainer>>, <<YamlInt(5)>>>>)),
     Unit("agent", NewManifest("DaemonSet", TRUE,
                    <<{}, <<MainContainer, SidecarContainer>>, <<>>>>)),
     Unit("svc", NewManifest("Service", TRUE, <<{}, <<>>, <<>>>>)),
     Unit("broken", UnparsableData(TRUE))}

UnitLists == UNION {[1..n -> BatchUnits] : n \in 0..MaxUnits}

\* wasteMetrics: a map from the slugs that have metrics to their metrics
WasteMetricsMaps ==
    {[slug \in slugs |-> NewWasteMetrics(Rat(75, 100), Rat(50, 100), 2, Rat(9, 10))] :
        slugs \in {{"web", "db", "agent", "svc", "broken"},
                   {"db", "agent", "svc", "broken"}}}
    \cup {[slug \in {"web", "db", "agent"} |->
              NewWasteMetrics(Rat(12, 100), Zero, 0, Rat(1, 2))]}

\* fmt.Errorf("failed to list units ...")
ListUnitsError == [err |-> "failed to list units"]

\* the loop left at the first unit that fails (mutation of Continue)
ContinueAsBreak(rest) == <<>>
\* continue: the loop goes on with the rest of the units
Continue(rest) == rest

\* the end of the loop body of BulkOptimizeUnits
AppendConfiguration(configs, optimized) ==
    IF Len(optimized.Optimizations) > 0 THEN Append(configs, optimized) ELSE configs

\* the loop of BulkOptimizeUnits over the units that are left, and its body
\* once GenerateOptimizedUnit has returned
RECURSIVE BulkOptimizeLoop(_, _, _, _), BulkOptimizeStep(_, _, _, _, _)
BulkOptimizeLoop(cfg, units, wasteMetrics, configs) ==
    IF units = <<>> THEN configs
    ELSE IF Head(units).Slug \notin DOMAIN wasteMetrics
    THEN BulkOptimizeLoop(cfg, Continue(Tail(units)), wasteMetrics, configs)
    ELSE BulkOptimizeStep(cfg, units, wasteMetrics, configs,
            GenerateOptimizedUnitOf(cfg, Head(units).Data,
                                    wasteMetrics[Head(units).Slug]))
BulkOptimizeStep(cfg, units, wasteMetrics, configs, optimized) ==
    IF optimized.err # ""
    THEN BulkOptimizeLoop(cfg, Continue(Tail(units)), wasteMetrics, configs)
    ELSE BulkOptimizeLoop(cfg, Tail(units), wasteMetrics,
                          AppendConfiguration(configs, optimized))

\* oe.BulkOptimizeUnits(setSlug, wasteMetrics); listed: ListUnits succeeds
BulkOptimizeUnits ==
    /\ ~config.called
    /\ config.op = "BulkOptimizeUnits"
    /\ config' = [called |-> TRUE, op |-> config.op, listed |-> config.listed,
                  units |-> config.units, wasteMetrics |-> config.wasteMetrics,
                  out |-> IF ~config.listed THEN ListUnitsError
                          ELSE [err |-> "",
                                configs |-> BulkOptimizeLoop(safetyConfig, config.units,
                                                config.wasteMetrics, <<>>)]]
    /\ UNCHANGED <<pricing, estimate, thresholds, detection, safetyConfig>>

\* SpaceCostAnalysis before the loop
NewSpaceCostAnalysis(units) ==
    [UnitCount |-> Len(units), Units |-> <<>>, TotalMonthlyCost |-> Fin(Zero)]

\* the end of the loop body of AnalyzeSpace
AppendEstimate(analysis, est) ==
    IF IsNilEstimate(est) THEN analysis
    ELSE [analysis EXCEPT !.Units = Append(@, est),
                          !.TotalMonthlyCost = XAdd(@, est.MonthlyCost)]

\* the loop of AnalyzeSpace over the units that are left, and its body once
\* analyzeUnit has returned
RECURSIVE AnalyzeSpaceLoop(_, _, _), AnalyzeSpaceStep(_, _, _, _)
AnalyzeSpaceLoop(units, pr, analysis) ==
    IF units = <<>> THEN analysis
    ELSE AnalyzeSpaceStep(units, pr, analysis, analyzeUnit(Head(units).Data, pr))
AnalyzeSpaceStep(units, pr, analysis, est) ==
    IF "err" \in DOMAIN est
    THEN AnalyzeSpaceLoop(Continue(Tail(units)), pr, analysis)
    ELSE AnalyzeSpaceLoop(Tail(units), pr, AppendEstimate(analysis, est))

\* the loop of AnalyzeSpace under the pricing model in force
AnalyzeSpaceOf(units, pr) == AnalyzeSpaceLoop(units, pr, NewSpaceCostAnalysis(units))

\* ca.AnalyzeSpace(); calculateMonthlyCost replaces a nil pricing model by
\* the default one when a unit reaches it
AnalyzeSpace ==
    /\ ~estimate.called
    /\ "units" \in DOMAIN estimate
    /\ estimate' =
          [called |-> TRUE, listed |-> estimate.listed, units |-> estimate.units,
           out |-> IF ~estimate.listed THEN ListUnitsError
                   ELSE [err |-> "",
                         analysis |-> AnalyzeSpaceOf(estimate.units,
                             IF IsNilPricing(pricing) THEN DefaultPricing ELSE pricing)]]
    /\ pricing' =
          IF /\ estimate.listed
             /\ IsNilPricing(pricing)
             /\ AnalyzeSpaceOf(estimate.units, DefaultPricing).Units # <<>>
          THEN DefaultPricing ELSE pricing
    /\ UNCHANGED <<thresholds, detection, safetyConfig, config>>

-----------------------------------------------------------------------------
(* ParseQuantity and String as a state machine                             *)

MaxNumber == 4  \* the numerals of the quantity strings go up to this

\* "100m", "1", "2000m", "500Mi", "1Gi", "2Ti"
ExampleQuantities ==
    {Str(I2F(100), "m"), Str(I2F(1), ""), Str(I2F(2000), "m"),
     Str(I2F(500), "Mi"), Str(I2F(1), "Gi"), Str(I2F(2), "Ti")}

\* a decimal numeral, with a sign and a fraction or without, and a suffix
NumeralQuantities ==
    {Str(I2F(n), suffix) : n \in -1..MaxNumber, suffix \in {"m", "", "Mi", "Gi", "Ti"}}
    \cup {Str(Rat(1, 2), suffix) : suffix \in {"", "Gi", "Ti", "Pi"}}
    \cup {Str(I2F(1), "Pi"), Str(I2F(2048), "Ki"), Str(I2F(1048576), "K")}

\* the empty string; words that are no number, alone and before every
\* suffix; a suffix alone; numerals before a suffix that is none of the known
OtherTexts ==
    {EmptyString}
    \cup {Text(word, suffix) : word \in {"abc", "1.2.3", "NaN", "Inf", "-Inf"},
                               suffix \in ByteSuffixes \cup {"m", ""}}
    \cup {Text("", suffix) : suffix \in ByteSuffixes \cup {"m"}}
    \cup {Str(I2F(n), suffix) : n \in 1..MaxNumber, suffix \in {"Xi", "B", "cores"}}

QuantityStrings == ExampleQuantities \cup NumeralQuantities \cup OtherTexts

\* the architectures the program is built for
Builds == {"amd64", "arm64"}

\* ParseQuantity(value)
Parse ==
    /\ ~config.called
    /\ config.op = "ParseQuantity"
    /\ config' = [called |-> TRUE, op |-> config.op, build |-> config.build,
                  value |-> config.value,
                  out |-> ParseQuantityOn(config.build, config.value)]
    /\ UNCHANGED <<pricing, estimate, thresholds, detection, safetyConfig>>

\* ParseQuantity(rq.String()) on the quantity that Parse returned
Reparse ==
    /\ config.called
    /\ config.op = "ParseQuantity"
    /\ "again" \notin DOMAIN config
    /\ config' = [called |-> TRUE, op |-> config.op, build |-> config.build,
                  value |-> config.value, out |-> config.out,
                  again |-> ParseQuantityOn(config.build, String(config.out))]
    /\ UNCHANGED <<pricing, estimate, thresholds, detection, safetyConfig>>

-----------------------------------------------------------------------------
(* Retry with backoff: the helper retryWithBackoff and                     *)
(* RetryableClient.retryWithBackoff, one loop iteration at a time          *)
(*                                                                         *)
(* config holds the call: the implementation, its retry configuration, the *)
(* operation (it fails `failures` times with the error `text`, then        *)
(* succeeds), the loop variables attempt and delay (milliseconds), the     *)
(* number of invocations of the operation, the time slept and, once the    *)
(* call has returned, its error ("" for nil).                              *)

MaxAttempts == 4  \* largest MaxAttempts of a retry configuration

\* DefaultRetryConfig
DefaultRetryConfig ==
    [MaxAttempts |-> 3, InitialDelay |-> 100, MaxDelay |-> 30000, Multiplier |-> I2F(2),
     RetryableErrors |-> {"connection refused", "timeout", "temporary failure",
                          "service unavailable"}]

\* the configurations of RetryableClient: the default one with every
\* MaxAttempts, and one whose MaxDelay is reached
RetryConfigs ==
    {[DefaultRetryConfig EXCEPT !.MaxAttempts = n] : n \in 0..MaxAttempts}
    \cup {[DefaultRetryConfig EXCEPT !.MaxAttempts = n, !.MaxDelay = 150,
                                     !.Multiplier = Rat(3, 2)] : n \in 0..MaxAttempts}

\* the configurations of the helper: maxAttempts and initialDelay, the
\* delay doubling without a bound
HelperConfigs ==
    {[DefaultRetryConfig EXCEPT !.MaxAttempts = n, !.InitialDelay = d] :
        n \in 0..MaxAttempts, d \in {10, 100}}

\* the error texts of the operations
ErrorTexts ==
    {"temporary error", "persistent error", "dial tcp: connection refused",
     "request timeout", "404 not found"}

\* strings.Contains(errMsg, pattern) on these texts
Contains(errMsg, pattern) ==
    <<errMsg, pattern>> \in {<<"dial tcp: connection refused", "connection refused">>,
                             <<"request timeout", "timeout">>}

\* rc.isRetryable(err)
isRetryable(cfg, errMsg) ==
    \E pattern \in cfg.RetryableErrors : Contains(errMsg, pattern)

\* the operations: `failures` failures with the error `text`, then success
Operations ==
    {[failures |-> n, text |-> t] : n \in 0..(MaxAttempts + 1), t \in ErrorTexts}

\* what the next invocation of the operation returns
Invoke(c) == IF c.attempts < c.operation.failures THEN c.operation.text ELSE ""

\* the call before the first iteration
NewRetry(impl, cfg, operation) ==
    [op |-> "retryWithBackoff", impl |-> impl, cfg |-> cfg, operation |-> operation,
     attempt |-> 1, delay |-> cfg.InitialDelay, attempts |-> 0, slept |-> 0,
     returned |-> FALSE, err |-> ""]

\* return of the call with an error, nil when err is ""
Return(c, err) == [c EXCEPT !.returned = TRUE, !.err = err]

\* an iteration of the helper's loop that does not return: the sleep and
\* the doubled delay short of the last attempt, then attempt++
HelperNextAttempt(c) ==
    IF c.attempt < c.cfg.MaxAttempts
    THEN [c EXCEPT !.attempt = @ + 1, !.slept = @ + c.delay, !.delay = @ * 2]
    ELSE [c EXCEPT !.attempt = @ + 1]

\* time.Duration(float64(delay) * Multiplier), at most MaxDelay
NextDelay(cfg, delay) ==
    IF Trunc(FMul(I2F(delay), cfg.Multiplier)) > cfg.MaxDelay THEN cfg.MaxDelay
    ELSE Trunc(FMul(I2F(delay), cfg.Multiplier))

\* an iteration of the client's loop that does not return
ClientNextAttempt(c) ==
    IF c.attempt < c.cfg.MaxAttempts
    THEN [c EXCEPT !.attempt = @ + 1, !.slept = @ + c.delay,
                   !.delay = NextDelay(c.cfg, @)]
    ELSE [c EXCEPT !.attempt = @ + 1]

\* the operation was invoked once more
Invoked(c) == [c EXCEPT !.attempts = @ + 1]

\* one iteration of the loop of the helper retryWithBackoff
RetryWithBackoffAttempt ==
    /\ config.op = "retryWithBackoff"
    /\ config.impl = "helper"
    /\ ~config.returned
    /\ config.attempt <= config.cfg.MaxAttempts
    /\ config' = IF Invoke(config) = "" THEN Return(Invoked(config), "")
                 ELSE HelperNextAttempt(Invoked(config))
    /\ UNCHANGED <<pricing, estimate, thresholds, detection, safetyConfig>>

\* one iteration of the loop of RetryableClient.retryWithBackoff
RetryableClientAttempt ==
    /\ config.op = "retryWithBackoff"
    /\ config.impl = "client"
    /\ ~config.returned
    /\ config.attempt <= config.cfg.MaxAttempts
    /\ config' = IF Invoke(config) = "" THEN Return(Invoked(config), "")
                 ELSE IF ~isRetryable(config.cfg, Invoke(config))
                 THEN Return(Invoked(config), Invoke(config))
                 ELSE ClientNextAttempt(Invoked(config))
    /\ UNCHANGED <<pricing, estimate, thresholds, detection, safetyConfig>>

\* the return after the loop, of either implementation
FailedAfterMaxAttempts ==
    /\ config.op = "retryWithBackoff"
    /\ ~config.returned
    /\ config.attempt > config.cfg.MaxAttempts
    /\ config' = Return(config, "failed after MaxAttempts attempts")
    /\ UNCHANGED <<pricing, estimate, thresholds, detection, safetyConfig>>

-----------------------------------------------------------------------------
(* The proposals of optimizeCPU and optimizeMemory as a state machine      *)

MaxWaste == 4  \* the waste fractions and the confidences are k/MaxWaste, k <= MaxWaste

\* the current CPU and memory totals a proposal is asked for
CurrentCPUs ==
    {ParseQuantity(v) : v \in {Str(Zero, "m"), Str(I2F(100), "m"), Str(I2F(250), "m"),
                               Str(I2F(1000), "m"), Str(I2F(2), ""), Str(I2F(4000), "m")}}
CurrentMemories ==
    {ParseQuantity(v) : v \in {Str(Zero, "Mi"), Str(I2F(128), "Mi"), Str(I2F(300), "Mi"),
                               Str(I2F(1), "Gi"), Str(I2F(4), "Gi"), Str(I2F(8), "Gi")}}

\* waste fractions and confidences: the quarters, and values next to the
\* gates of the proposals (0.1 for the waste, 0.5 for the confidence)
WasteFractions == {Rat(k, MaxWaste) : k \in 0..MaxWaste} \cup {Rat(1, 10), Rat(9, 10)}
Confidences    == {Rat(k, MaxWaste) : k \in 1..MaxWaste} \cup {Rat(45, 100), Rat(9, 10)}

\* safety configurations: the default, other margins and floors, no margin
\* and no floor, floors of a whole core and a whole GiB, other thresholds
ResourceSafetyConfigurations ==
    {DefaultSafetyConfiguration,
     TightSafetyConfiguration,
     [DefaultSafetyConfiguration EXCEPT !.CPUSafetyMargin = Zero,
                                        !.MemorySafetyMargin = Zero,
                                        !.MinCPUCores = Zero,
                                        !.MinMemoryGB = Zero],
     [DefaultSafetyConfiguration EXCEPT !.MinCPUCores = One, !.MinMemoryGB = One],
     OtherThresholdsConfiguration}

\* oe.optimizeCPU(current, wastePercent, confidence)
OptimizeCPU ==
    /\ ~config.called
    /\ config.op = "optimizeCPU"
    /\ config' = [config EXCEPT !.called = TRUE] @@
                 [out |-> optimizeCPU(safetyConfig, config.current,
                                      config.wastePercent, config.confidence)]
    /\ UNCHANGED <<pricing, estimate, thresholds, detection, safetyConfig>>

\* oe.optimizeMemory(current, wastePercent, confidence)
OptimizeMemory ==
    /\ ~config.called
    /\ config.op = "optimizeMemory"
    /\ config' = [config EXCEPT !.called = TRUE] @@
                 [out |-> optimizeMemory(safetyConfig, config.current,
                                         config.wastePercent, config.confidence)]
    /\ UNCHANGED <<pricing, estimate, thresholds, detection, safetyConfig>>

-----------------------------------------------------------------------------

(* Sums of quantities as a state machine                                   *)

MaxAdds == 2  \* most Add calls on one quantity

\* the texts of the quantities that are parsed and added: CPU amounts, byte
\* amounts of whole Mi up to a Ti, and the empty string
AddedTexts ==
    {Str(I2F(100), "m"), Str(I2F(1000), "m"), Str(I2F(2), ""), Str(I2F(1500), "m"),
     Str(I2F(512), "Mi"), Str(I2F(1024), "Mi"), Str(I2F(1), "Gi"), Str(I2F(1), "Ti"),
     EmptyString}

\* rq := ParseQuantity(value)
NewQuantity ==
    /\ ~config.called
    /\ config.op = "Add"
    /\ config' = [called |-> TRUE, op |-> config.op, value |-> config.value,
                  adds |-> 0, rq |-> ParseQuantity(config.value)]
    /\ UNCHANGED <<pricing, estimate, thresholds, detection, safetyConfig>>

\* rq.Add(ParseQuantity(other))
AddQuantity(other) ==
    /\ config.called
    /\ config.op = "Add"
    /\ config.adds < MaxAdds
    /\ config' = [config EXCEPT !.adds = @ + 1,
                                !.rq = Add(@, ParseQuantity(other))]
    /\ UNCHANGED <<pricing, estimate, thresholds, detection, safetyConfig>>

-----------------------------------------------------------------------------

(* part_004: the circuit breaker, one step of a goroutine at a time        *)

MaxGoroutines   == 2  \* goroutines that call Execute at once
MaxTime         == 3  \* the clock runs from 0 to MaxTime
MaxFailureCount == 3  \* cb.failures is followed up to this count

StateClosed   == "CLOSED"
StateOpen     == "OPEN"
StateHalfOpen == "HALF_OPEN"

\* NewCircuitBreaker(maxFailures, resetTimeout, logger)
NewCircuitBreaker(maxFailures, resetTimeout) ==
    [maxFailures |-> maxFailures, resetTimeout |-> resetTimeout,
     state |-> StateClosed, failures |-> 0, lastFailTime |-> 0]

\* sync.RWMutex: the goroutines that hold the read lock and those that have
\* called Lock and wait for it; a waiting writer keeps new readers out
NewRWMutex == [readers |-> {}, writers |-> {}]
CanRLock(mu) == mu.writers = {}
CanLock(mu)  == mu.readers = {}

\* several goroutines sharing one breaker, none of them in a call
NewBreakerUse(goroutines, maxFailures, resetTimeout) ==
    [op |-> "Execute",
     cb |-> NewCircuitBreaker(maxFailures, resetTimeout),
     mu |-> NewRWMutex,
     now |-> 0,
     pc |-> [g \in goroutines |-> "idle"],
     probe |-> [g \in goroutines |-> FALSE],
     consecutive |-> 0]

\* the breaker steps leave the analyzers alone
BreakerFrame == UNCHANGED <<pricing, estimate, thresholds, detection, safetyConfig>>

\* a breaker that takes the timeout as over at once
TimedOutAtOnce(c) == c.now - c.cb.lastFailTime >= 0

\* time.Since(cb.lastFailTime) > cb.resetTimeout
TimedOut(c) == c.now - c.cb.lastFailTime > c.cb.resetTimeout

\* Execute calls canAttempt: cb.mu.RLock()
CanAttemptRLock(g) ==
    /\ config.op = "Execute"
    /\ config.pc[g] = "idle"
    /\ CanRLock(config.mu)
    /\ config' = [config EXCEPT !.mu.readers = @ \cup {g}, !.pc[g] = "switch"]
    /\ BreakerFrame

\* switch cb.state; in StateOpen after the timeout, cb.mu.RUnlock()
CanAttemptSwitch(g) ==
    /\ config.op = "Execute"
    /\ config.pc[g] = "switch"
    /\ config' =
          IF config.cb.state = StateClosed
          THEN [config EXCEPT !.pc[g] = "return true", !.probe[g] = FALSE]
          ELSE IF config.cb.state = StateHalfOpen
          THEN [config EXCEPT !.pc[g] = "return true", !.probe[g] = TRUE]
          ELSE IF TimedOut(config)
          THEN [config EXCEPT !.mu.readers = @ \ {g}, !.pc[g] = "Lock"]
          ELSE [config EXCEPT !.pc[g] = "return false"]
    /\ BreakerFrame

\* cb.mu.Lock() is called
CanAttemptLock(g) ==
    /\ config.op = "Execute"
    /\ config.pc[g] = "Lock"
    /\ config' = [config EXCEPT !.mu.writers = @ \cup {g}, !.pc[g] = "promote"]
    /\ BreakerFrame

\* the write lock is taken: cb.state = StateHalfOpen; cb.mu.Unlock()
CanAttemptPromote(g) ==
    /\ config.op = "Execute"
    /\ config.pc[g] = "promote"
    /\ CanLock(config.mu)
    /\ config' = [config EXCEPT !.cb.state = StateHalfOpen,
                                !.mu.writers = @ \ {g},
                                !.probe[g] = TRUE,
                                !.pc[g] = "RLock"]
    /\ BreakerFrame

\* cb.mu.RLock() again, before return true
CanAttemptRLockAgain(g) ==
    /\ config.op = "Execute"
    /\ config.pc[g] = "RLock"
    /\ CanRLock(config.mu)
    /\ config' = [config EXCEPT !.mu.readers = @ \cup {g}, !.pc[g] = "return true"]
    /\ BreakerFrame

\* return true and the deferred cb.mu.RUnlock(); the operation starts
CanAttemptReturnTrue(g) ==
    /\ config.op = "Execute"
    /\ config.pc[g] = "return true"
    /\ config' = [config EXCEPT !.mu.readers = @ \ {g}, !.pc[g] = "operation"]
    /\ BreakerFrame

\* return false and the deferred cb.mu.RUnlock(); Execute returns
\* fmt.Errorf("circuit breaker is OPEN")
CanAttemptReturnFalse(g) ==
    /\ config.op = "Execute"
    /\ config.pc[g] = "return false"
    /\ config' = [config EXCEPT !.mu.readers = @ \ {g}, !.pc[g] = "idle"]
    /\ BreakerFrame

\* the goroutines whose failure is on its way to recordFailure
FailuresUnderWay(c) == {g \in DOMAIN c.pc : c.pc[g] = "recordFailure"}

\* err := operation() returns, and recordFailure or recordSuccess calls
\* cb.mu.Lock()
Operation(g, failed) ==
    /\ config.op = "Execute"
    /\ config.pc[g] = "operation"
    /\ failed => config.cb.failures + Cardinality(FailuresUnderWay(config)) < MaxFailureCount
    /\ failed => config.consecutive < MaxFailureCount
    /\ config' = [config EXCEPT
                     !.mu.writers = @ \cup {g},
                     !.consecutive = IF failed THEN @ + 1 ELSE 0,
                     !.pc[g] = IF failed THEN "recordFailure" ELSE "recordSuccess"]
    /\ BreakerFrame

\* recordFailure with the write lock; Execute returns err
RecordFailure(g) ==
    /\ config.op = "Execute"
    /\ config.pc[g] = "recordFailure"
    /\ CanLock(config.mu)
    /\ config' = [config EXCEPT
                     !.cb.failures = @ + 1,
                     !.cb.lastFailTime = config.now,
                     !.cb.state = IF config.cb.failures + 1 >= config.cb.maxFailures
                                  THEN StateOpen ELSE @,
                     !.mu.writers = @ \ {g},
                     !.pc[g] = "idle"]
    /\ BreakerFrame

\* recordSuccess with the write lock; Execute returns nil
RecordSuccess(g) ==
    /\ config.op = "Execute"
    /\ config.pc[g] = "recordSuccess"
    /\ CanLock(config.mu)
    /\ config' = [config EXCEPT
                     !.cb.state = IF @ = StateHalfOpen THEN StateClosed ELSE @,
                     !.cb.failures = 0,
                     !.mu.writers = @ \ {g},
                     !.pc[g] = "idle"]
    /\ BreakerFrame

\* time passes
Tick ==
    /\ config.op = "Execute"
    /\ config.now < MaxTime
    /\ config' = [config EXCEPT !.now = @ + 1]
    /\ BreakerFrame

\* one step of goroutine g in Execute
ExecuteStep(g) ==
    \/ CanAttemptRLock(g)
    \/ CanAttemptSwitch(g)
    \/ CanAttemptLock(g)
    \/ CanAttemptPromote(g)
    \/ CanAttemptRLockAgain(g)
    \/ CanAttemptReturnTrue(g)
    \/ CanAttemptReturnFalse(g)
    \/ \E failed \in BOOLEAN : Operation(g, failed)
    \/ RecordFailure(g)
    \/ RecordSuccess(g)

-----------------------------------------------------------------------------

(* Specifications.  Each one starts from freshly constructed analyzers     *)
(* (default pricing, thresholds and safety configuration) with the input   *)
(* of the call at hand drawn from the input sets.                          *)

NoConfig == [called |-> FALSE]

InitCost ==
    /\ pricing = DefaultPricing
    /\ estimate \in {[called |-> FALSE, in |-> e] : e \in EstimateInputs}
    /\ thresholds = DefaultWasteThresholds
    /\ detection = NoDetection
    /\ safetyConfig = NoConfig
    /\ config = NoConfig

NextCost ==
    \/ \E p \in PricingModels : SetPricing(p)
    \/ CalculateMonthlyCost

SpecCost == InitCost /\ [][NextCost]_vars

InitWaste ==
    /\ pricing = DefaultPricing
    /\ estimate = NoEstimate
    /\ thresholds = DefaultWasteThresholds
    /\ detection \in
          {[called |-> FALSE, estimate |-> e, usage |-> u, hasUsageData |-> TRUE] :
              e \in WasteEstimates, u \in UsageInputs}
          \cup
          {[called |-> FALSE, estimate |-> e, usage |-> ZeroUsage, hasUsageData |-> FALSE] :
              e \in WasteEstimates}
    /\ safetyConfig = NoConfig
    /\ config = NoConfig

NextWaste ==
    \/ \E th \in ThresholdSets : SetThresholds(th)
    \/ AnalyzeUnitWaste

SpecWaste == InitWaste /\ [][NextWaste]_vars


InitOpt ==
    /\ pricing = DefaultPricing
    /\ estimate = NoEstimate
    /\ thresholds = DefaultWasteThresholds
    /\ detection = NoDetection
    /\ safetyConfig = DefaultSafetyConfiguration
    /\ config \in {[called |-> FALSE, op |-> "GenerateOptimizedUnit",
                    manifest |-> m, waste |-> w] :
                       m \in Manifests, w \in WasteMetricsInputs}

NextOpt ==
    \/ \E cfg \in SafetyConfigurations : SetSafetyConfiguration(cfg)
    \/ GenerateOptimizedUnit

SpecOpt == InitOpt /\ [][NextOpt]_vars

InitReplicas ==
    /\ pricing = DefaultPricing
    /\ estimate = NoEstimate
    /\ thresholds = DefaultWasteThresholds
    /\ detection = NoDetection
    /\ safetyConfig = DefaultSafetyConfiguration
    /\ config \in {[called |-> FALSE, op |-> "optimizeReplicas",
                    current |-> c, idle |-> i] :
                       c \in 0..MaxReplicas, i \in (-1)..MaxReplicas}

NextReplicas ==
    \/ \E cfg \in SafetyConfigurations : SetSafetyConfiguration(cfg)
    \/ OptimizeReplicas

SpecReplicas == InitReplicas /\ [][NextReplicas]_vars

InitDistribute ==
    /\ pricing = DefaultPricing
    /\ estimate = NoEstimate
    /\ thresholds = DefaultWasteThresholds
    /\ detection = NoDetection
    /\ safetyConfig = DefaultSafetyConfiguration
    /\ config \in {[called |-> FALSE, op |-> "distributeOptimizedResource",
                    containers |-> c, resourceType |-> t, total |-> v] :
                       c \in ContainerLayouts, t \in {"cpu", "memory"},
                       v \in OptimizedTotals}

NextDistribute == DistributeOptimizedResource

SpecDistribute == InitDistribute /\ [][NextDistribute]_vars

InitUnit ==
    /\ pricing = DefaultPricing
    /\ thresholds = DefaultWasteThresholds
    /\ detection = NoDetection
    /\ safetyConfig = DefaultSafetyConfiguration
    /\ \E d \in UnitData, w \in UnitWasteInputs :
          /\ estimate = [called |-> FALSE, unit |-> d]
          /\ config = [called |-> FALSE, op |-> "GenerateOptimizedUnit",
                       manifest |-> d, waste |-> w]

NextUnit ==
    \/ \E p \in UnitPricingModels : SetPricing(p)
    \/ \E cfg \in UnitSafetyConfigurations : SetSafetyConfiguration(cfg)
    \/ AnalyzeUnit
    \/ GenerateOptimizedUnit

SpecUnit == InitUnit /\ [][NextUnit]_vars

InitBatch ==
    /\ pricing = DefaultPricing
    /\ thresholds = DefaultWasteThresholds
    /\ detection = NoDetection
    /\ safetyConfig = DefaultSafetyConfiguration
    /\ \E units \in UnitLists, listed \in BOOLEAN :
          /\ ~listed => units = <<>>
          /\ estimate = [called |-> FALSE, listed |-> listed, units |-> units]
          /\ \E wasteMetrics \in WasteMetricsMaps :
                config = [called |-> FALSE, op |-> "BulkOptimizeUnits", listed |-> listed,
                          units |-> units, wasteMetrics |-> wasteMetrics]

NextBatch ==
    \/ \E p \in UnitPricingModels : SetPricing(p)
    \/ \E cfg \in UnitSafetyConfigurations : SetSafetyConfiguration(cfg)
    \/ BulkOptimizeUnits
    \/ AnalyzeSpace

SpecBatch == InitBatch /\ [][NextBatch]_vars

InitParse ==
    /\ pricing = DefaultPricing
    /\ estimate = NoEstimate
    /\ thresholds = DefaultWasteThresholds
    /\ detection = NoDetection
    /\ safetyConfig = NoConfig
    /\ config \in {[called |-> FALSE, op |-> "ParseQuantity", build |-> b, value |-> v] :
                      b \in Builds, v \in QuantityStrings}

NextParse ==
    \/ Parse
    \/ Reparse

SpecParse == InitParse /\ [][NextParse]_vars

InitResource ==
    /\ pricing = DefaultPricing
    /\ estimate = NoEstimate
    /\ thresholds = DefaultWasteThresholds
    /\ detection = NoDetection
    /\ safetyConfig = DefaultSafetyConfiguration
    /\ config \in
          {[called |-> FALSE, op |-> "optimizeCPU", current |-> c,
            wastePercent |-> w, confidence |-> k] :
               c \in CurrentCPUs, w \in WasteFractions, k \in Confidences}
          \cup
          {[called |-> FALSE, op |-> "optimizeMemory", current |-> c,
            wastePercent |-> w, confidence |-> k] :
               c \in CurrentMemories, w \in WasteFractions, k \in Confidences}

NextResource ==
    \/ \E cfg \in ResourceSafetyConfigurations : SetSafetyConfiguration(cfg)
    \/ OptimizeCPU
    \/ OptimizeMemory

SpecResource == InitResource /\ [][NextResource]_vars

InitAdd ==
    /\ pricing = DefaultPricing
    /\ estimate = NoEstimate
    /\ thresholds = DefaultWasteThresholds
    /\ detection = NoDetection
    /\ safetyConfig = NoConfig
    /\ config \in {[called |-> FALSE, op |-> "Add", value |-> v] : v \in AddedTexts}

NextAdd ==
    \/ NewQuantity
    \/ \E other \in AddedTexts : AddQuantity(other)

SpecAdd == InitAdd /\ [][NextAdd]_vars

\* the settings a breaker is made with
BreakerSettings == {[maxFailures |-> m, resetTimeout |-> t] : m \in 1..2, t \in 0..1}

InitBreakerOf(goroutines) ==
    /\ pricing = DefaultPricing
    /\ estimate = NoEstimate
    /\ thresholds = DefaultWasteThresholds
    /\ detection = NoDetection
    /\ safetyConfig = NoConfig
    /\ config \in {NewBreakerUse(goroutines, s.maxFailures, s.resetTimeout) :
                      s \in BreakerSettings}

\* one goroutine: every Execute returns before the next one is called
InitSequential == InitBreakerOf({1})

NextSequential ==
    \/ ExecuteStep(1)
    \/ Tick

SpecSequential == InitSequential /\ [][NextSequential]_vars

\* several goroutines calling Execute at once
InitConcurrent == InitBreakerOf(1..MaxGoroutines)

NextConcurrent ==
    \/ \E g \in 1..MaxGoroutines : ExecuteStep(g)
    \/ Tick

SpecConcurrent == InitConcurrent /\ [][NextConcurrent]_vars

InitRetry ==
    /\ pricing = DefaultPricing
    /\ estimate = NoEstimate
    /\ thresholds = DefaultWasteThresholds
    /\ detection = NoDetection
    /\ safetyConfig = NoConfig
    /\ config \in {NewRetry("helper", cfg, o) : cfg \in HelperConfigs, o \in Operations}
                  \cup {NewRetry("client", cfg, o) : cfg \in RetryConfigs, o \in Operations}

NextRetry ==
    \/ RetryWithBackoffAttempt
    \/ RetryableClientAttempt
    \/ FailedAfterMaxAttempts

SpecRetry == InitRetry /\ [][NextRetry]_vars

\* the goroutine that runs the loop is scheduled until the call returns
FairSpecRetry == SpecRetry /\ WF_vars(NextRetry)


-----------------------------------------------------------------------------
(* Claims about the waste analyzer (SpecWaste)                             *)

Analysed == detection.called /\ ~detection.isNil
AnalysedWithUsage == Analysed /\ detection.hasUsageData
AnalysedWithoutUsage == Analysed /\ ~detection.hasUsageData

\* max(0, (allocated - used) / allocated) as a percentage
ClampedWastePercent(allocated, used) ==
    FMax(Zero, FMul(FDiv(FSub(allocated, used), allocated), Hundred))

\* C1: for a unit analysed with usage data, the CPU and the memory
\* WastePercent equal max(0, (allocated - used)/allocated) x 100 and are
\* never negative, also when usage exceeds the allocation.
C1_WastePercentNeverNegative ==
    AnalysedWithUsage =>
        LET est == detection.estimate
            use == detection.usage
            out == detection.out
        IN  /\ FLe(Zero, out.CPUWaste.WastePercent)
            /\ FLe(Zero, out.MemoryWaste.WastePercent)
            /\ est.CPU.milli > 0 =>
                  out.CPUWaste.WastePercent =
                      ClampedWastePercent(Rat(est.CPU.milli, 1000), use.CPUCoresUsed)
            /\ est.Memory.bytes > 0 =>
                  out.MemoryWaste.WastePercent =
                      ClampedWastePercent(I2F(est.Memory.bytes), I2F(use.MemoryBytesUsed))

\* C2: for a unit without usage data, analyzeUnitWaste returns WasteScore
\* exactly 25 and WasteSeverity LOW, whatever the allocation and the cost.
C2_NoUsageScoreIs25 ==
    AnalysedWithoutUsage =>
        /\ detection.out.WasteScore = I2F(25)
        /\ detection.out.WasteSeverity = "LOW"

\* C4: the cost waste ratio the waste score is based on lies in [0, 1] for
\* every actual cost and every estimated cost > 0, and is 0 whenever the
\* actual cost is at least the estimated cost.
C4_WasteRatioInUnitInterval ==
    (Analysed /\ FLt(Zero, detection.out.EstimatedMonthlyCost)) =>
        LET ratio == WasteRatio(detection.out)
        IN  /\ FLe(Zero, ratio)
            /\ FLe(ratio, One)
            /\ FLe(detection.out.EstimatedMonthlyCost, detection.out.ActualMonthlyCost)
                  => ratio = Zero

\* recommendation r is the CPU rightsizing one
IsCPUResize(r) == r.Type = "resize" /\ r.Action = "Reduce CPU allocation"

\* C14: in every WasteDetection a recommendation has AutoApplyable = TRUE
\* only if it is a CPU resize whose risk is LOW; memory resize, replica
\* scale-down and terminate recommendations always have AutoApplyable =
\* FALSE, for all usage inputs.
C14_AutoApplyOnlyLowRiskCPUResize ==
    Analysed =>
        \A k \in 1..Len(detection.out.Recommendations) :
            LET r == detection.out.Recommendations[k]
            IN  /\ r.AutoApplyable => (IsCPUResize(r) /\ r.Risk = "LOW")
                /\ ~IsCPUResize(r) => ~r.AutoApplyable
                /\ r.Type \in {"resize", "scale-down", "terminate"}

\* a detection with all four recommendations, the CPU resize alone being
\* auto-applyable
C14_Witness ==
    /\ AnalysedWithUsage
    /\ Len(detection.out.Recommendations) = 4
    /\ IsCPUResize(detection.out.Recommendations[1])
    /\ detection.out.Recommendations[1].AutoApplyable
    /\ detection.out.Recommendations[2].Action = "Reduce memory allocation"
    /\ detection.out.Recommendations[3].Type = "scale-down"
    /\ detection.out.Recommendations[4].Type = "terminate"
    /\ \A k \in 2..4 : ~detection.out.Recommendations[k].AutoApplyable

-----------------------------------------------------------------------------
(* Claims about the cost analyzer (SpecCost)                               *)

Costed == estimate.called

XNonNegFinite(x) == x.k = "fin" /\ x.v[1] >= 0

ValidRates(pr) ==
    /\ XNonNegFinite(pr.CPUHourly)
    /\ XNonNegFinite(pr.MemoryHourly)
    /\ XNonNegFinite(pr.StorageGB)

AnyRateNegative(pr) ==
    XLt0(pr.CPUHourly) \/ XLt0(pr.MemoryHourly) \/ XLt0(pr.StorageGB)

\* (cpuCores x CPUHourly + memoryGiB x MemoryHourly) x 720 x replicas
\*   + storageGiB x StorageGB x replicas
MonthlyCostFormula(est, pr) ==
    FAdd(FMul(FMul(FAdd(FMul(Rat(est.CPU.milli, 1000), pr.CPUHourly.v),
                        FMul(Rat(est.Memory.bytes, MiPerGi), pr.MemoryHourly.v)),
                   I2F(720)),
              I2F(est.Replicas)),
         FMul(FMul(Rat(est.Storage.bytes, MiPerGi), pr.StorageGB.v), I2F(est.Replicas)))

\* the example of the cost test: 2 cores, 4Gi memory, 10Gi storage, 3 replicas
ExampleEstimate ==
    NewEstimate(Quantity(2000, 0), Quantity(0, 4 * MiPerGi), Quantity(0, 10 * MiPerGi), 3)

\* C5: calculateMonthlyCost returns the formula above (storage multiplied by
\* the replica count), the Breakdown it sets adds up to the monthly cost, and
\* the example costs 158.52 = 103.68 + 51.84 + 3.00 under default pricing.
C5_MonthlyCostFormula ==
    Costed =>
        LET in  == estimate.in
            out == estimate.out
            pr  == estimate.pricing
        IN  /\ (/\ ValidRates(pr) /\ in.Replicas >= 0 /\ in.CPU.milli >= 0
                /\ in.Memory.bytes >= 0 /\ in.Storage.bytes >= 0)
                  => out.MonthlyCost = Fin(MonthlyCostFormula(in, pr))
            /\ ~AnyRateNegative(pr)
                  => XAdd(XAdd(out.Breakdown.CPUCost, out.Breakdown.MemoryCost),
                          out.Breakdown.StorageCost) = out.MonthlyCost
            /\ (in = ExampleEstimate /\ pr = DefaultPricing)
                  => /\ out.MonthlyCost = Fin(Rat(15852, 100))
                     /\ out.Breakdown.CPUCost = Fin(Rat(10368, 100))
                     /\ out.Breakdown.MemoryCost = Fin(Rat(5184, 100))
                     /\ out.Breakdown.StorageCost = Fin(I2F(3))

C5_Witness ==
    /\ Costed
    /\ estimate.in = ExampleEstimate
    /\ estimate.pricing = DefaultPricing
    /\ estimate.out.MonthlyCost = Fin(Rat(15852, 100))

\* C6: the monthly cost and every Breakdown component are finite and >= 0 for
\* every estimate and pricing model; a negative rate gives a monthly cost of
\* 0; a negative replica count or resource amount contributes 0.
C6_CostNonNegativeFinite ==
    Costed =>
        LET in  == estimate.in
            out == estimate.out
            pr  == estimate.pricing
        IN  /\ XNonNegFinite(out.MonthlyCost)
            /\ XNonNegFinite(out.Breakdown.CPUCost)
            /\ XNonNegFinite(out.Breakdown.MemoryCost)
            /\ XNonNegFinite(out.Breakdown.StorageCost)
            /\ AnyRateNegative(pr) => out.MonthlyCost = Fin(Zero)
            /\ in.Replicas < 0 => out.MonthlyCost = Fin(Zero)
            /\ in.CPU.milli < 0 => out.Breakdown.CPUCost = Fin(Zero)
            /\ in.Memory.bytes < 0 => out.Breakdown.MemoryCost = Fin(Zero)
            /\ in.Storage.bytes < 0 => out.Breakdown.StorageCost = Fin(Zero)

C6_Witness ==
    /\ Costed
    /\ estimate.in.Replicas < 0
    /\ estimate.in.CPU.milli < 0
    /\ XIsNaN(estimate.pricing.MemoryHourly)
    /\ estimate.out.MonthlyCost = Fin(Zero)

-----------------------------------------------------------------------------
(* Claims about the optimization engine (SpecOpt, SpecReplicas,            *)
(* SpecDistribute)                                                         *)

Optimized ==
    config.called /\ config.op = "GenerateOptimizedUnit" /\ config.out.err = ""

ExampleManifest == NewManifest("Deployment", TRUE, <<{5}, <<AppContainer>>, <<>>>>)
ExampleWaste    == NewWasteMetrics(Rat(75, 100), Rat(50, 100), 2, Rat(9, 10))

\* C3: GenerateOptimizedUnit on the single-container Deployment with 5
\* replicas, CPU 2000m/4000m and memory 4Gi/8Gi, given waste {CPU 0.75,
\* memory 0.50, idle replicas 2, confidence 0.9} and the default safety
\* configuration, yields replicas 3, a CPU request of 600m with CPU limit
\* 900m, and overall risk MEDIUM.
C3_ExampleOptimization ==
    (/\ Optimized
     /\ config.manifest = ExampleManifest
     /\ config.waste = ExampleWaste
     /\ safetyConfig = DefaultSafetyConfiguration)
    => /\ config.out.OptimizedUnit.replicas = {3}
       /\ config.out.OptimizedUnit.containers[1]["requests"]["cpu"] = Str(I2F(600), "m")
       /\ config.out.OptimizedUnit.containers[1]["limits"]["cpu"] = Str(I2F(900), "m")
       /\ config.out.RiskAssessment.OverallRisk = "MEDIUM"

\* the CPU request of container i of the optimized manifest, in millicores
OptimizedCPURequest(i) ==
    ContainerQuantity(config.out.OptimizedUnit.containers[i], "requests", "cpu").milli

\* container i of the original manifest has a CPU amount to be re-split
HasCPUBaseline(i) ==
    ContainerAmount(extractSingleContainerResources(config.manifest.containers[i]),
                    "cpu").milli > 0

\* C7: no CPU request proposed by the optimizer falls below MinCPUCores:
\* neither the aggregate OptimizedValue of a cpu proposal nor any
\* per-container CPU request that the redistribution writes into the
\* optimized manifest.
C7_NoCPURequestBelowMinCPUCores ==
    Optimized =>
        \A k \in 1..Len(config.out.Optimizations) :
            config.out.Optimizations[k].Type = "cpu" =>
                LET minMillis == FMul(safetyConfig.MinCPUCores, I2F(1000))
                    total == ParseQuantity(config.out.Optimizations[k].OptimizedValue)
                IN  /\ FLe(minMillis, I2F(total.milli))
                    /\ \A i \in 1..Len(config.manifest.containers) :
                          HasCPUBaseline(i) => FLe(minMillis, I2F(OptimizedCPURequest(i)))

ReplicasOptimized == config.called /\ config.op = "optimizeReplicas"

\* the replica count a proposal names
ProposedReplicas == config.out.OptimizedValue.n[1]

\* v replicas respect the floor, are fewer than now, and cut no more than
\* MaxReplicaReduction of the current count
AdmissibleReplicas(v) ==
    /\ v < config.current
    /\ v >= safetyConfig.MinReplicas
    /\ FLe(Rat(config.current - v, config.current), safetyConfig.MaxReplicaReduction)

\* C8: any replica proposal returned by optimizeReplicas has
\* optimized >= MinReplicas, optimized < current and
\* (current - optimized)/current <= MaxReplicaReduction; when no value
\* strictly below current satisfies these, no proposal is made.
C8_ReplicaProposalBounds ==
    ReplicasOptimized =>
        /\ ~config.out.nil =>
              /\ config.out.OptimizedValue = FormatInt(ProposedReplicas)
              /\ AdmissibleReplicas(ProposedReplicas)
        /\ (~\E v \in 0..(config.current - 1) : AdmissibleReplicas(v)) => config.out.nil

\* a proposal that the cap on the reduction ratio has raised above
\* current - idle
C8_Witness ==
    /\ ReplicasOptimized
    /\ ~config.out.nil
    /\ config.current - config.idle >= safetyConfig.MinReplicas
    /\ ProposedReplicas > config.current - config.idle
    /\ safetyConfig.MinReplicas > 0

Distributed == config.called /\ config.op = "distributeOptimizedResource"

\* the amount container i had before, and the request it has afterwards
BaselineOf(i) ==
    AmountOf(ContainerAmount(extractSingleContainerResources(config.containers[i]),
                             config.resourceType), config.resourceType)
NewRequestOf(i) ==
    AmountOf(ContainerQuantity(config.out[i], "requests", config.resourceType),
             config.resourceType)

RECURSIVE SumTo(_, _)
SumTo(f, n) == IF n = 0 THEN 0 ELSE f[n] + SumTo(f, n - 1)

C10_DeploymentProposalGates ==
    (Optimized /\ config.manifest.kind = "Deployment") =>
        \A k \in 1..Len(config.out.Optimizations) :
            LET opt == config.out.Optimizations[k]
            IN  /\ FLe(Rat(1, 2), config.waste.WasteConfidence)
                /\ opt.Type = "cpu" => FLe(Rat(1, 10), config.waste.CPUWastePercent)
                /\ opt.Type = "memory" => FLe(Rat(1, 10), config.waste.MemoryWastePercent)
                /\ opt.Type = "replicas" => config.waste.IdleReplicas > 0
                /\ FLe(I2F(5), opt.ReductionPercent)

-----------------------------------------------------------------------------
(* Claims about the units of a space (SpecUnit, SpecOpt, SpecBatch)        *)

UnitOptimized == config.called /\ config.op = "GenerateOptimizedUnit"
UnitAnalysed  == estimate.called /\ "unit" \in DOMAIN estimate

WorkloadKinds == {"Deployment", "StatefulSet", "DaemonSet"}

\* the data parses and its kind is none of the three workload kinds
UnsupportedKind(data) == ~IsUnparsable(data) /\ KindOf(data) \notin WorkloadKinds

\* C11: a unit whose kind is not Deployment, StatefulSet or DaemonSet
\* yields an error that names the unsupported kind, never a nil result
\* without an error: from GenerateOptimizedUnit and from analyzeUnit alike.
C11_UnsupportedKindIsNamedError ==
    /\ (UnitOptimized /\ UnsupportedKind(config.manifest)) =>
          /\ config.out.err = "unsupported resource type for optimization"
          /\ config.out.kind = KindOf(config.manifest)
    /\ (UnitAnalysed /\ UnsupportedKind(estimate.unit)) =>
          "err" \in DOMAIN estimate.out

\* the manifest has a resource section: a container with a requests or a
\* limits map, or a volume claim template with a storage request
HasResourceSection(manifest) ==
    \/ \E i \in 1..Len(manifest.containers) :
          Has(manifest.containers[i], "requests") \/ Has(manifest.containers[i], "limits")
    \/ manifest.volumeClaimTemplates # <<>>

\* C12: optimizing a Deployment, StatefulSet or DaemonSet whose manifest
\* has no resource section at all fails with "no resource specifications
\* found" and returns no OptimizedConfiguration; a manifest with at least
\* one resource section never yields this error.
C12_NoResourceSpecificationsError ==
    (UnitOptimized /\ ~IsUnparsable(config.manifest)
                   /\ KindOf(config.manifest) \in WorkloadKinds) =>
        IF HasResourceSection(config.manifest)
        THEN config.out.err # "no resource specifications found"
        ELSE config.out = NoResourceSpecifications

BulkOptimized == config.called /\ config.op = "BulkOptimizeUnits" /\ config.listed
SpaceAnalysed == estimate.called /\ "units" \in DOMAIN estimate /\ estimate.listed

\* what BulkOptimizeUnits gets for unit i of the list taken alone: the
\* outcome of GenerateOptimizedUnit, or nothing without waste metrics
ConfigurationOf(i) ==
    IF config.units[i].Slug \in DOMAIN config.wasteMetrics
    THEN GenerateOptimizedUnitOf(safetyConfig, config.units[i].Data,
                                 config.wasteMetrics[config.units[i].Slug])
    ELSE [err |-> "no waste metrics"]

\* what analyzeUnit gives for unit i of the list taken alone
EstimateOf(i) == analyzeUnit(estimate.units[i].Data, pricing)

\* the indices 1..n that satisfy Keep, in order
Kept(n, Keep(_)) == SelectSeq([i \in 1..n |-> i], Keep)

\* results is made of alone[i] for the indices i that satisfy Keep, in order
ResultsAre(results, alone, Keep(_)) ==
    /\ Len(results) = Len(Kept(Len(alone), Keep))
    /\ \A k \in 1..Len(results) : results[k] = alone[Kept(Len(alone), Keep)[k]]

BulkResultsAre(results, alone) ==
    ResultsAre(results, alone,
               LAMBDA i : alone[i].err = "" /\ alone[i].Optimizations # <<>>)

SpaceResultsAre(results, alone) ==
    ResultsAre(results, alone, LAMBDA i : ~IsNilEstimate(alone[i]))

-----------------------------------------------------------------------------
(* Claims about quantity strings (SpecParse)                               *)

Parsed   == config.called /\ config.op = "ParseQuantity"
Reparsed == Parsed /\ "again" \in DOMAIN config

\* the millicores and the bytes (in Mi) of the six examples
ExampleValues ==
    {<<Str(I2F(100), "m"), 100, 0>>, <<Str(I2F(1), ""), 1000, 0>>,
     <<Str(I2F(2000), "m"), 2000, 0>>, <<Str(I2F(500), "Mi"), 0, 500>>,
     <<Str(I2F(1), "Gi"), 0, MiPerGi>>, <<Str(I2F(2), "Ti"), 0, 2 * MiPerGi * MiPerGi>>}

\* C15: for each v of "100m", "1", "2000m", "500Mi", "1Gi", "2Ti",
\* ParseQuantity(ParseQuantity(v).String()) has the milli value and the
\* byte value of ParseQuantity(v), and the parsed values are 100, 1000 and
\* 2000 millicores and 500*2^20, 2^30 and 2*2^40 bytes.
C15_ParseRoundTrip ==
    \A e \in ExampleValues :
        (Parsed /\ config.value = e[1]) =>
            /\ config.out.milli = e[2]
            /\ config.out.bytes = e[3]
            /\ Reparsed => /\ config.again.milli = config.out.milli
                           /\ config.again.bytes = config.out.bytes

\* "2Ti" was parsed, turned into a string and parsed again
C15_Witness ==
    /\ Reparsed
    /\ config.value = Str(I2F(2), "Ti")
    /\ config.again.bytes = 2 * MiPerGi * MiPerGi

\* the text is a decimal numeral followed by a known suffix or by none
IsValidQuantity(value) ==
    /\ value # EmptyString
    /\ "word" \notin DOMAIN value
    /\ value.suffix \in ByteSuffixes \cup {"m", ""}

\* C16: ParseQuantity is total: for every input string (empty, no number,
\* unknown suffix, known suffix after something that is no number) it
\* returns a quantity, and the quantity has milli value 0 and byte value 0
\* whenever the text is not a valid quantity.
C16_ParseQuantityTotal ==
    Parsed =>
        /\ DOMAIN config.out = {"Value", "milli", "bytes"}
        /\ ~IsValidQuantity(config.value) =>
              (config.out.milli = 0 /\ config.out.bytes = 0)

-----------------------------------------------------------------------------
(* Claims about retry with backoff (SpecRetry)                             *)

Retried == config.op = "retryWithBackoff" /\ config.returned

\* C17: retry with backoff invokes the operation until its first success or
\* until maxAttempts invocations: an operation that fails k-1 times and
\* then succeeds (k <= maxAttempts) is invoked exactly k times and the
\* retry returns no error, whatever the error text of the failures; an
\* operation that always fails is invoked exactly maxAttempts times and the
\* retry returns an error.
C17_RetryUntilSuccessOrMaxAttempts ==
    /\ config.attempts <= config.cfg.MaxAttempts
    /\ Retried =>
          IF config.operation.failures < config.cfg.MaxAttempts
          THEN config.attempts = config.operation.failures + 1 /\ config.err = ""
          ELSE config.attempts = config.cfg.MaxAttempts /\ config.err # ""

\* every call returns, in every run in which the loop keeps being scheduled
RetryTerminates == <>Retried

-----------------------------------------------------------------------------
(* Claims about the proposals and their risk (SpecResource, SpecOpt)       *)

ResourceProposed ==
    /\ config.called
    /\ config.op \in {"optimizeCPU", "optimizeMemory"}
    /\ ~config.out.nil

\* the cap, the margin, the floor and the current total of the dimension
\* at hand, the last two in millicores or in Mi
ProposalCap == IF config.op = "optimizeCPU" THEN Rat(7, 10) ELSE Rat(6, 10)
ProposalMargin ==
    IF config.op = "optimizeCPU" THEN safetyConfig.CPUSafetyMargin
    ELSE safetyConfig.MemorySafetyMargin
ProposalFloor ==
    IF config.op = "optimizeCPU" THEN FMul(safetyConfig.MinCPUCores, I2F(1000))
    ELSE FMul(safetyConfig.MinMemoryGB, I2F(MiPerGi))
ProposalCurrent ==
    IF config.op = "optimizeCPU" THEN I2F(config.current.milli)
    ELSE I2F(config.current.bytes)

\* max(floor, current x (1 - min(waste x confidence, cap)) x (1 + margin))
ProposedTotal ==
    FMax(ProposalFloor,
         FMul(FMul(ProposalCurrent,
                   FSub(One, FMin(FMul(config.wastePercent, config.confidence),
                                  ProposalCap))),
              FAdd(One, ProposalMargin)))

RiskRank(risk) == CASE risk = "LOW" -> 0 [] risk = "MEDIUM" -> 1 [] risk = "HIGH" -> 2

\* the reduction of a proposal as a fraction of the current value
ReductionFraction(opt) == FDiv(opt.ReductionPercent, Hundred)

\* the low and the high threshold that the configuration has for a dimension
LowThreshold(type) ==
    IF type = "cpu" THEN safetyConfig.RiskThresholds.LowRiskCPUReduction
    ELSE safetyConfig.RiskThresholds.LowRiskMemoryReduction
HighThreshold(type) ==
    IF type = "cpu" THEN safetyConfig.RiskThresholds.HighRiskCPUReduction
    ELSE safetyConfig.RiskThresholds.HighRiskMemoryReduction

AssessedWasteConfidence ==
    IF config.manifest.kind = "StatefulSet"
    THEN FMul(config.waste.WasteConfidence, Rat(8, 10))
    ELSE config.waste.WasteConfidence

\* C20: when at least one proposal exists, the overall confidence equals
\* the input waste confidence x 0.7 if overall risk is HIGH, x 0.85 if
\* MEDIUM, and unchanged if LOW; RecommendedPhase is "dev" if that
\* confidence is below 0.4, otherwise "staging" if overall risk is HIGH or
\* the confidence is below 0.6, otherwise "prod".
C20_ConfidenceAndPhase ==
    (Optimized /\ config.out.Optimizations # <<>>) =>
        LET risk == config.out.RiskAssessment
        IN  /\ risk.Confidence =
                  FMul(AssessedWasteConfidence,
                       CASE risk.OverallRisk = "HIGH" -> Rat(7, 10)
                         [] risk.OverallRisk = "MEDIUM" -> Rat(85, 100)
                         [] risk.OverallRisk = "LOW" -> One)
            /\ risk.RecommendedPhase =
                  IF FLt(risk.Confidence, Rat(4, 10)) THEN "dev"
                  ELSE IF risk.OverallRisk = "HIGH" \/ FLt(risk.Confidence, Rat(6, 10))
                  THEN "staging"
                  ELSE "prod"

\* a HIGH overall risk that lowers a confidence of 0.9 to 0.63, which alone
\* would allow "prod", and sends the configuration to "staging"
C20_Witness ==
    /\ Optimized
    /\ config.out.Optimizations # <<>>
    /\ config.out.RiskAssessment.OverallRisk = "HIGH"
    /\ config.waste.WasteConfidence = Rat(9, 10)
    /\ config.out.RiskAssessment.Confidence = Rat(63, 100)
    /\ config.out.RiskAssessment.RecommendedPhase = "staging"

-----------------------------------------------------------------------------
(* Claims about the StatefulSet and the DaemonSet path (SpecOpt)           *)

\* idle / 2 as Go divides integers, towards zero
Halved(idle) == IF idle >= 0 THEN idle \div 2 ELSE -((-idle) \div 2)

\* the waste metrics of the call with CPU and memory waste x 0.7, idle
\* replicas halved and confidence x 0.8
DampedWaste ==
    NewWasteMetrics(FMul(config.waste.CPUWastePercent, Rat(7, 10)),
                    FMul(config.waste.MemoryWastePercent, Rat(7, 10)),
                    Halved(config.waste.IdleReplicas),
                    FMul(config.waste.WasteConfidence, Rat(8, 10)))

StatefulSetOptimized == UnitOptimized /\ KindOf(config.manifest) = "StatefulSet"

HasProposal(type) ==
    \E k \in 1..Len(config.out.Optimizations) : config.out.Optimizations[k].Type = type

\* C21: optimizing a StatefulSet returns exactly what the Deployment path
\* returns for the same manifest with CPU waste and memory waste multiplied
\* by 0.7, idle replicas halved (integer division, so 1 idle replica
\* becomes 0) and confidence multiplied by 0.8; the confidence gate and the
\* risk assessment both use the damped confidence.
C21_StatefulSetIsDampedDeployment ==
    StatefulSetOptimized =>
        /\ config.out = optimizeDeployment(safetyConfig, config.manifest, DampedWaste)
        /\ config.waste.IdleReplicas = 1 => ~HasProposal("replicas")
        /\ FLt(DampedWaste.WasteConfidence, Rat(1, 2)) =>
              ~HasProposal("cpu") /\ ~HasProposal("memory")
        /\ config.out.Optimizations # <<>> =>
              config.out.RiskAssessment.Confidence =
                  AdjustedConfidence(config.out.RiskAssessment.OverallRisk,
                                     DampedWaste.WasteConfidence)

\* a StatefulSet whose confidence of 0.5 passes the gate as given and
\* fails it once damped, and whose 2 idle replicas give a proposal for 1
C21_Witness ==
    /\ StatefulSetOptimized
    /\ config.waste.WasteConfidence = Rat(1, 2)
    /\ FLt(Rat(1, 10), DampedWaste.CPUWastePercent)
    /\ config.waste.IdleReplicas = 2
    /\ HasProposal("replicas")
    /\ ~HasProposal("cpu")
    /\ optimizeDeployment(safetyConfig, config.manifest, config.waste).Optimizations
          # config.out.Optimizations

\* the dimensions that a configuration has proposals for
ProposalTypes(out) ==
    {out.Optimizations[k].Type : k \in 1..Len(out.Optimizations)}

DaemonSetOptimized == UnitOptimized /\ KindOf(config.manifest) = "DaemonSet"

\* C22: optimizing a DaemonSet never produces a replicas proposal and
\* leaves spec.replicas of the manifest unchanged, whatever IdleReplicas
\* is; a CPU or memory proposal is made for a DaemonSet only when that
\* resource's waste is at least 15%.
C22_DaemonSetResourceOnly ==
    DaemonSetOptimized =>
        /\ ~HasProposal("replicas")
        /\ config.out.OptimizedUnit.replicas = config.manifest.replicas
        /\ HasProposal("cpu") => FLe(Rat(15, 100), config.waste.CPUWastePercent)
        /\ HasProposal("memory") => FLe(Rat(15, 100), config.waste.MemoryWastePercent)

\* a DaemonSet with idle replicas and with 12% CPU waste, for which the
\* Deployment path proposes fewer replicas and less CPU, and which gets
\* neither
C22_Witness ==
    /\ DaemonSetOptimized
    /\ config.waste.IdleReplicas > 0
    /\ config.waste.CPUWastePercent = Rat(12, 100)
    /\ config.out.Optimizations = <<>>
    /\ {"cpu", "replicas"} \subseteq
          ProposalTypes(optimizeDeployment(safetyConfig, config.manifest, config.waste))

-----------------------------------------------------------------------------
(* Claims about the requests and limits of a container (SpecDistribute)    *)

\* the redistribution writes a request for container i: the container has
\* an amount of its own, or no container has one and the total is split
RequestWritten(i) ==
    \/ BaselineOf(i) > 0
    \/ \A j \in 1..Len(config.containers) : BaselineOf(j) = 0

\* the limit container i has afterwards, in millicores or Mi
NewLimitOf(i) ==
    AmountOf(ContainerQuantity(config.out[i], "limits", config.resourceType),
             config.resourceType)

\* 10 x the ratio between the limit and the request
LimitTenths == IF config.resourceType = "cpu" THEN 15 ELSE 12

\* C23: whenever the optimizer writes a new request for a container it also
\* writes that container's limit for the same resource, equal to 1.5 x the
\* new request for CPU and 1.2 x the new request for memory (rounded to
\* 1m / 1Mi) and replacing any earlier limit, so in every optimized
\* container limit >= request for each resource that was optimized.
C23_LimitFollowsRequest ==
    Distributed =>
        \A i \in 1..Len(config.containers) :
            RequestWritten(i) =>
                /\ Has(config.out[i], "requests")
                /\ Has(config.out[i]["requests"], config.resourceType)
                /\ Has(config.out[i], "limits")
                /\ Has(config.out[i]["limits"], config.resourceType)
                /\ config.out[i]["limits"][config.resourceType].suffix =
                      (IF config.resourceType = "cpu" THEN "m" ELSE "Mi")
                /\ 2 * Abs(10 * NewLimitOf(i) - LimitTenths * NewRequestOf(i)) <= 10
                /\ NewLimitOf(i) >= NewRequestOf(i)

\* a container that had a limit before and has a smaller one afterwards,
\* above its new request
C23_Witness ==
    /\ Distributed
    /\ \E i \in 1..Len(config.containers) :
          /\ RequestWritten(i)
          /\ Has(config.containers[i], "limits")
          /\ Has(config.containers[i]["limits"], config.resourceType)
          /\ NewLimitOf(i) <
                AmountOf(ContainerQuantity(config.containers[i], "limits",
                                           config.resourceType), config.resourceType)
          /\ NewLimitOf(i) > NewRequestOf(i)
          /\ NewRequestOf(i) > 0

-----------------------------------------------------------------------------
(* Claims about the string form of a quantity (SpecAdd)                    *)

QuantityBuilt == config.called /\ config.op = "Add"

\* Mi in a Ti and in a Pi
MiPerTi == MiPerGi * 1024
MiPerPi == MiPerTi * 1024

\* the most compact form of a CPU amount and of a byte amount of whole Mi
CompactCPU(milli) ==
    IF milli % 1000 = 0 THEN Str(I2F(milli \div 1000), "") ELSE Str(I2F(milli), "m")
CompactBytes(mi) ==
    IF mi % MiPerPi = 0 THEN Str(I2F(mi \div MiPerPi), "Pi")
    ELSE IF mi % MiPerTi = 0 THEN Str(I2F(mi \div MiPerTi), "Ti")
    ELSE IF mi % MiPerGi = 0 THEN Str(I2F(mi \div MiPerGi), "Gi")
    ELSE Str(I2F(mi), "Mi")

\* C24: the string form of a quantity is its most compact unit: whole cores
\* when the milli value is a multiple of 1000, otherwise <n>m; for byte
\* quantities the largest binary unit among Ki, Mi, Gi, Ti, Pi that divides
\* the value exactly, otherwise raw bytes.  This holds for String() of a
\* freshly parsed quantity and for String() after any sequence of Add calls.
C24_StringIsMostCompactUnit ==
    QuantityBuilt =>
        /\ (config.rq.milli > 0 /\ config.rq.bytes = 0) =>
              String(config.rq) = CompactCPU(config.rq.milli)
        /\ (config.rq.bytes > 0 /\ config.rq.milli = 0) =>
              String(config.rq) = CompactBytes(config.rq.bytes)

-----------------------------------------------------------------------------
(* Claims about the waste score and the scale-down (SpecWaste)             *)

\* some waste category of the detection has the severity
AnySeverity(severity) ==
    \E k \in 1..Len(detection.out.WasteCategories) :
        detection.out.WasteCategories[k].Severity = severity

\* 1.5 if any category is HIGH, otherwise 1.2 if any is MEDIUM, otherwise 1
AnySeverityMultiplier ==
    IF AnySeverity("HIGH") THEN Rat(15, 10)
    ELSE IF AnySeverity("MEDIUM") THEN Rat(12, 10)
    ELSE One

DataQualityMultiplier ==
    CASE detection.out.DataQuality = "EXCELLENT" -> One
      [] detection.out.DataQuality = "GOOD" -> Rat(9, 10)
      [] detection.out.DataQuality = "FAIR" -> Rat(7, 10)
      [] detection.out.DataQuality = "POOR" -> Rat(5, 10)

\* C25: for a unit analysed with usage data, WasteScore always lies in
\* [0,100] and equals min(100, baseRatio x 100 x s x q), where s is 1.5 if
\* any waste category has severity HIGH, otherwise 1.2 if any has severity
\* MEDIUM, otherwise 1.0, and q is 1.0, 0.9, 0.7 or 0.5 for data quality
\* EXCELLENT, GOOD, FAIR or POOR.
C25_WasteScoreFormula ==
    (AnalysedWithUsage /\ FLt(Zero, detection.out.EstimatedMonthlyCost)) =>
        /\ FLe(Zero, detection.out.WasteScore)
        /\ FLe(detection.out.WasteScore, Hundred)
        /\ detection.out.WasteScore =
              FMin(Hundred,
                   FMul(FMul(FMul(FMax(Zero, FDiv(detection.out.WastedMonthlyCost,
                                                  detection.out.EstimatedMonthlyCost)),
                                  Hundred),
                             AnySeverityMultiplier),
                        DataQualityMultiplier))

\* a container's amounts before anything is counted
NothingCounted == [CPU |-> ResourceQuantityZero, Memory |-> ResourceQuantityZero]

\* the CPU or the memory amount of what has been counted
Counted(sums, resourceType) ==
    IF resourceType = "cpu" THEN sums.CPU.milli ELSE sums.Memory.bytes

\* the amount of a container by the rule: from its requests section whenever
\* that section exists, from its limits section only when it is absent
CountedByRule(container, resourceType) ==
    IF Has(container, "requests")
    THEN AmountOf(ContainerQuantity(container, "requests", resourceType), resourceType)
    ELSE IF Has(container, "limits")
    THEN AmountOf(ContainerQuantity(container, "limits", resourceType), resourceType)
    ELSE 0

\* the amount the cost estimator counts for a container
CountedByCostEstimator(container, resourceType) ==
    Counted(extractContainerResources(container, NothingCounted), resourceType)

\* the amount the optimizer's aggregate extraction counts for a container
CountedByExtraction(container, resourceType) ==
    IF IsNilInfo(extractSingleContainerResources(container)) THEN 0
    ELSE Counted(addContainerResourcesToSpecs(
                     extractSingleContainerResources(container), NothingCounted),
                 resourceType)

\* C26: for each container, the CPU and memory amounts that are counted come
\* from its requests section whenever that section exists, and from its
\* limits section only when the requests section is absent; the cost
\* estimator, the optimizer's aggregate extraction and the baseline used for
\* proportional redistribution all apply this same rule, so they count the
\* same amount for the same container.
C26_RequestsBeforeLimitsEverywhere ==
    Distributed =>
        \A i \in 1..Len(config.containers) :
            LET amount == CountedByRule(config.containers[i], config.resourceType)
            IN  /\ CountedByCostEstimator(config.containers[i], config.resourceType) = amount
                /\ CountedByExtraction(config.containers[i], config.resourceType) = amount
                /\ BaselineOf(i) = amount

\* the detection has a scale-down recommendation
ScaleDownRecommended ==
    \E k \in 1..Len(detection.out.Recommendations) :
        detection.out.Recommendations[k].Type = "scale-down"

\* C27: whenever the waste detector emits a scale-down recommendation for a
\* unit (idle replicas > 0.5), the replica count it recommends, max(2,
\* ceil(average running replicas) + 1), is strictly less than the unit's
\* configured replica count, so the recommendation never asks to keep or
\* increase the replica count.
C27_ScaleDownRecommendsFewerReplicas ==
    (AnalysedWithUsage /\ ScaleDownRecommended) =>
        /\ FLt(Rat(1, 2), detection.out.ReplicaWaste.IdleReplicas)
        /\ detection.out.ReplicaWaste.Recommended =
              (IF Ceil(detection.usage.AverageReplicas) + 1 < 2 THEN 2
               ELSE Ceil(detection.usage.AverageReplicas) + 1)
        /\ detection.out.ReplicaWaste.Recommended <
              detection.out.ReplicaWaste.ConfiguredReplicas

-----------------------------------------------------------------------------
(* Claims about the applied safety (SpecOpt)                               *)

\* the replica count and the idle replicas that optimizeReplicas is given
CurrentReplicas == extractResourceSpecs(config.manifest).Replicas
IdleReplicasGiven ==
    IF KindOf(config.manifest) = "StatefulSet" THEN Halved(config.waste.IdleReplicas)
    ELSE config.waste.IdleReplicas

\* a replica proposal is emitted and the floor has raised its value
ReplicaFloorBinds ==
    /\ HasProposal("replicas")
    /\ CurrentReplicas - IdleReplicasGiven < safetyConfig.MinReplicas

\* C28: if a replica proposal is emitted whose value was raised to
\* MinReplicas by the floor (current - idle < MinReplicas), the resulting
\* OptimizedConfiguration has AppliedSafety.ReplicaFloorApplied = true; the
\* flag is false when the floor did not bind.
C28_ReplicaFloorAppliedFlag ==
    Optimized =>
        (config.out.AppliedSafety.ReplicaFloorApplied <=> ReplicaFloorBinds)


-----------------------------------------------------------------------------
(* The circuit breaker used by one goroutine                               *)

\* the position of the only goroutine of SpecSequential
SequentialPc == config.pc[1]

\* the time since the last recorded failure
SinceLastFailure == config.now - config.cb.lastFailTime

\* the step with which goroutine 1 leaves the given position
Leaves(position) == config.pc[1] = position /\ config'.pc[1] # position

\* between two calls the breaker is OPEN once maxFailures operations in a
\* row have failed, and CLOSED breakers have fewer failures in a row; the
\* failure count is the number of failures in a row
OpenAfterConsecutiveFailures ==
    SequentialPc = "idle" =>
        /\ config.cb.failures = config.consecutive
        /\ config.consecutive >= config.cb.maxFailures => config.cb.state = StateOpen
        /\ config.cb.state = StateClosed => config.consecutive < config.cb.maxFailures
        /\ config.cb.state # StateHalfOpen

\* an operation runs in CLOSED, or in HALF_OPEN as the call let through
OperationOnlyWhenAdmitted ==
    SequentialPc = "operation" =>
        /\ config.cb.state \in {StateClosed, StateHalfOpen}
        /\ config.probe[1] <=> config.cb.state = StateHalfOpen

\* OPEN before the timeout: the call goes to the rejection and from there
\* returns, the operation not started
RejectedWhileOpen ==
    /\ (Leaves("switch") /\ config.cb.state = StateOpen
            /\ SinceLastFailure < config.cb.resetTimeout)
          => config'.pc[1] = "return false"
    /\ Leaves("return false") => (config'.pc[1] = "idle" /\ config'.cb = config.cb)

\* OPEN after the timeout: the call goes on to the promotion, which makes
\* the breaker HALF_OPEN, and then to the operation
LetThroughAfterTimeout ==
    /\ (Leaves("switch") /\ config.cb.state = StateOpen
            /\ SinceLastFailure > config.cb.resetTimeout)
          => config'.pc[1] = "Lock"
    /\ Leaves("Lock") => config'.pc[1] = "promote"
    /\ Leaves("promote") =>
          (config'.pc[1] = "RLock" /\ config'.cb.state = StateHalfOpen)
    /\ Leaves("RLock") => config'.pc[1] = "return true"
    /\ Leaves("return true") => config'.pc[1] = "operation"

\* the end of the call let through in HALF_OPEN
HalfOpenOutcome ==
    /\ (Leaves("recordSuccess") /\ config.cb.state = StateHalfOpen)
          => (config'.cb.state = StateClosed /\ config'.cb.failures = 0)
    /\ (Leaves("recordFailure") /\ config.cb.state = StateHalfOpen)
          => config'.cb.state = StateOpen

\* a success in CLOSED resets the count, and CLOSED becomes OPEN only with
\* maxFailures failures in a row
OnlyConsecutiveFailuresOpen ==
    /\ (Leaves("recordSuccess") /\ config.cb.state = StateClosed)
          => (config'.cb.state = StateClosed /\ config'.cb.failures = 0)
    /\ (config.cb.state = StateClosed /\ config'.cb.state = StateOpen)
          => (Leaves("recordFailure") /\ config.consecutive >= config.cb.maxFailures)
    /\ (Leaves("recordFailure") /\ config.cb.state = StateClosed
            /\ config.consecutive < config.cb.maxFailures)
          => config'.cb.state = StateClosed

\* C29: CircuitBreaker, sequential use: after maxFailures consecutive
\* failed Execute calls the state is OPEN; while OPEN and before
\* resetTimeout has elapsed since the last failure, Execute returns the
\* "circuit breaker is OPEN" error without invoking the operation; after
\* the timeout one call is let through in HALF_OPEN, where a success moves
\* the breaker to CLOSED with the failure count reset to 0 and a failure
\* moves it back to OPEN; any success in CLOSED resets the failure count,
\* so only consecutive failures open the circuit.
C29_SequentialBreaker ==
    /\ [](OpenAfterConsecutiveFailures /\ OperationOnlyWhenAdmitted)
    /\ [][/\ RejectedWhileOpen
          /\ LetThroughAfterTimeout
          /\ HalfOpenOutcome
          /\ OnlyConsecutiveFailuresOpen]_vars

\* the breaker has been opened by a failure after time 0, a later call was
\* let through in HALF_OPEN, succeeded and closed the breaker
C29_Witness ==
    /\ config.op = "Execute"
    /\ DOMAIN config.pc = {1}
    /\ SequentialPc = "idle"
    /\ config.probe[1]
    /\ config.cb.state = StateClosed
    /\ config.cb.failures = 0
    /\ config.cb.lastFailTime > 0


-----------------------------------------------------------------------------
(* The circuit breaker shared by several goroutines                        *)

\* the changes of state the breaker is meant to make
AllowedStateChanges ==
    {<<StateClosed, StateOpen>>, <<StateOpen, StateHalfOpen>>,
     <<StateHalfOpen, StateClosed>>, <<StateHalfOpen, StateOpen>>}

StateChangesAlongTheCycle ==
    config'.cb.state # config.cb.state =>
        <<config.cb.state, config'.cb.state>> \in AllowedStateChanges

\* the step in which some goroutine's promotion writes cb.state
Promotes ==
    \E g \in DOMAIN config.pc : config.pc[g] = "promote" /\ config'.pc[g] = "RLock"

\* the promotion finds the breaker OPEN, as its caller saw it under the
\* read lock, and never CLOSED
PromotionKeepsLaterState ==
    Promotes => (config.cb.state = StateOpen /\ config.cb.state # StateClosed)

\* the goroutines whose operation is running
Operating == {g \in DOMAIN config.pc : config.pc[g] = "operation"}

AtMostOneProbe ==
    config.cb.state = StateHalfOpen => Cardinality(Operating) <= 1

\* C30: CircuitBreaker, concurrent use: with several goroutines calling
\* Execute at once, the state changes only along CLOSED -> OPEN,
\* OPEN -> HALF_OPEN, HALF_OPEN -> CLOSED and HALF_OPEN -> OPEN; the
\* OPEN -> HALF_OPEN promotion in canAttempt never overwrites a state that
\* another goroutine set in between (it never turns CLOSED into HALF_OPEN),
\* and at most one probing operation runs while the breaker is HALF_OPEN.
C30_ConcurrentBreaker ==
    /\ [][StateChangesAlongTheCycle /\ PromotionKeepsLaterState]_vars
    /\ []AtMostOneProbe

=============================================================================
